---- MODULE Spec2Model ----
(***************************************************************************)
(* Slither game core (slitherLogic.js): createInitialState / tick, and the *)
(* page that drives it (SlitherPage.jsx): its callbacks and its frame loop.*)
(*   Spec            games ticked by a caller                              *)
(*   SpecCreate      the loops of createInitialState, pass by pass         *)
(*   FairSpecCreate  the same with fair random draws                       *)
(*   SpecPage        the page from its mount to its frames                 *)
(*                                                                         *)
(* Numbers.  The source computes in IEEE doubles; the model computes in    *)
(* fixed point:                                                            *)
(*   - lengths and coordinates are integers counting 1/UNIT world units;   *)
(*   - times (dt, nextPelletSpawn) are integers counting milliseconds;     *)
(*   - angles are integers counting degrees, so Math.PI is 180;            *)
(*   - Math.cos / Math.sin return thousandths (Bhaskara's approximation);  *)
(*   - Math.random() returns thousandths in 0..999.                        *)
(***************************************************************************)
EXTENDS Integers, Sequences, FiniteSets, TLC

\* ---------------------------------------------------------------- bounds
UNIT == 100                 \* fixed-point resolution: 1 world unit = UNIT
MaxTicks == 2               \* ticks applied to one game
MaxBots == 5                \* createInitialState: numBots is in 0..MaxBots
MaxPellets == 2             \* createInitialState: numPellets is in 0..MaxPellets
SmallArena == 100           \* createInitialState: width and height of the arena
GameBots == 2               \* numBots of the games played from their creation on
MaxLifeFrames == 2          \* animation frames of the page from click to click
MaxRestarts == 1            \* clicks on Restart
MaxFrames == 1              \* animation frames of one game of the page
MaxBoostFrames == 2         \* animation frames of the page under speed boosts
MaxWaits == 2               \* spells of time passing with the loop stopped
MaxSteps == 2               \* steps of the grid game
MaxHeadFrames == 2          \* frames of the head tracking of the grid game

\* ------------------------------------------------------ program constants
SEGMENT_SPACING == 8
HEAD_RADIUS == 10
BODY_RADIUS == 8
PELLET_RADIUS == 6
DEFAULT_SPEED == 120
TURN_SPEED == 4
PELLET_VALUE == 1
DEATH_PELLET_FRACTION_NUM == 2      \* DEATH_PELLET_FRACTION = 0.4 = 2 / 5
DEATH_PELLET_FRACTION_DEN == 5
INITIAL_LENGTH == 15
PELLET_SPAWN_INTERVAL == 2          \* seconds
ARENA_PADDING == 40
PI == 180                           \* Math.PI, in degrees
FIXED_DT == 17                      \* 1 / 60 s, in milliseconds
PLAYER_TURN_RATE == 3
BOOST_BASE_DURATION_MS == 2000
BOOST_DURATION_PER_SCORE_MS == 50
BOOST_SPEED_MULTIPLIER == 1500      \* 1.5, in thousandths
BOOST_COOLDOWN_MS == 5000
CALIBRATION_DELAY_SEC == 2
GRID_SIZE == 18
START_SPEED == 140
DIRECTION_COOLDOWN == 120

\* ------------------------------------------------------------- arithmetic
\* a / b rounded to the nearest integer (b > 0)
RDiv(a, b) == (2 * a + b) \div (2 * b)

Min(a, b) == IF a < b THEN a ELSE b
Max(a, b) == IF a > b THEN a ELSE b

RECURSIVE SqrtSearch(_, _, _)
SqrtSearch(n, lo, hi) ==
  IF lo >= hi THEN lo
  ELSE LET mid == (lo + hi + 1) \div 2
       IN IF mid * mid <= n THEN SqrtSearch(n, mid, hi)
          ELSE SqrtSearch(n, lo, mid - 1)

\* square root rounded to the nearest integer
Sqrt(n) ==
  LET r == SqrtSearch(n, 0, 46340)
  IN IF n - r * r > r THEN r + 1 ELSE r

\* Math.hypot
Hypot(dx, dy) == Sqrt(dx * dx + dy * dy)

\* Math.sin of an angle in degrees, in thousandths
Bhaskara(m) == (4000 * m * (PI - m)) \div (40500 - m * (PI - m))
Sin(a) ==
  LET m == a % (2 * PI)
  IN IF m <= PI THEN Bhaskara(m) ELSE 0 - Bhaskara(m - PI)

\* Math.cos of an angle in degrees, in thousandths
Cos(a) == Sin(a + PI \div 2)

\* --------------------------------------------------------- normalizeAngle
RECURSIVE AngleDown(_)
AngleDown(a) == IF a > PI THEN AngleDown(a - 2 * PI) ELSE a

RECURSIVE AngleUp(_)
AngleUp(a) == IF a < 0 - PI THEN AngleUp(a + 2 * PI) ELSE a

\* normalizeAngle as it would be without its second loop
normalizeAngleDownOnly(a) == AngleDown(a)

normalizeAngle(a) == AngleUp(AngleDown(a))

\* ------------------------------------------------------------------ distSq
distSq(a, b) ==
  LET dx == b.x - a.x
      dy == b.y - a.y
  IN dx * dx + dy * dy

\* --------------------------------------------------------------- moveSnake
\* the digits kept after the point of a distance whose square is d2, so that
\* a short distance divides as exactly as a long one and nothing overflows
Precision(d2) ==
  IF d2 < 2000 THEN 1000 ELSE IF d2 < 200000 THEN 100 ELSE IF d2 < 20000000 THEN 10 ELSE 1

\* the body loop of moveSnake (i is the 1-based index of the segment placed
\* next, prev the segment placed last, acc the segments placed so far)
RECURSIVE Follow(_, _, _, _, _)

\* the body loop as it would be if every segment took the place its leader
\* had before the move
RECURSIVE FollowShift(_, _, _, _, _)
FollowShift(old, i, prev, angle, acc) ==
  IF i > Len(old) THEN acc
  ELSE FollowShift(old, i + 1, old[i - 1], angle, Append(acc, old[i - 1]))

\* the body loop as it would be without the fallback of a segment that lies
\* on its leader: the segment stays where it is
RECURSIVE FollowStay(_, _, _, _, _)
FollowStay(old, i, prev, angle, acc) ==
  IF i > Len(old) THEN acc
  ELSE LET curr == old[i]
           k == Precision(distSq(prev, curr))
           d == Hypot((prev.x - curr.x) * k, (prev.y - curr.y) * k)
           next == IF d = 0
                   THEN curr
                   ELSE [x |-> prev.x + RDiv((curr.x - prev.x) * SEGMENT_SPACING * UNIT * k, d),
                         y |-> prev.y + RDiv((curr.y - prev.y) * SEGMENT_SPACING * UNIT * k, d)]
       IN FollowStay(old, i + 1, next, angle, Append(acc, next))

Follow(old, i, prev, angle, acc) ==
  IF i > Len(old) THEN acc
  ELSE LET curr == old[i]
           k == Precision(distSq(prev, curr))
           d == Hypot((prev.x - curr.x) * k, (prev.y - curr.y) * k)
           next == IF d = 0
                   THEN [x |-> prev.x - RDiv(Cos(angle) * SEGMENT_SPACING * UNIT, 1000),
                         y |-> prev.y - RDiv(Sin(angle) * SEGMENT_SPACING * UNIT, 1000)]
                   ELSE [x |-> prev.x + RDiv((curr.x - prev.x) * SEGMENT_SPACING * UNIT * k, d),
                         y |-> prev.y + RDiv((curr.y - prev.y) * SEGMENT_SPACING * UNIT * k, d)]
       IN Follow(old, i + 1, next, angle, Append(acc, next))

\* the steering as it would be turning to the target at once
SteerSnap(snake, dt, targetAngle) == normalizeAngle(targetAngle)

\* the steering as it would be turning by twice the fraction of the
\* difference
SteerTwice(snake, dt, targetAngle) ==
  LET diff == normalizeAngle(targetAngle - snake.angle)
  IN normalizeAngle(snake.angle
                    + RDiv(2 * diff * Min(1000, snake.turnSpeed * dt), 1000))

\* the heading after steering towards targetAngle for dt milliseconds
Steer(snake, dt, targetAngle) ==
  LET diff == normalizeAngle(targetAngle - snake.angle)
  IN normalizeAngle(snake.angle
                    + RDiv(diff * Min(1000, snake.turnSpeed * dt), 1000))

\* speed * dt along one axis, c being the cosine or sine in thousandths
Advance(c, speed, dt) == RDiv(RDiv(c * speed * dt, 1000) * UNIT, 1000)

\* moveSnake as it would be building a bot's record instead of spreading the
\* snake it was given
moveSnakeAsBot(snake, dt, targetAngle) ==
  LET head == snake.segments[1]
      angle == Steer(snake, dt, targetAngle)
      newHead == [x |-> head.x + Advance(Cos(angle), snake.speed, dt),
                  y |-> head.y + Advance(Sin(angle), snake.speed, dt)]
  IN [snake EXCEPT !.segments = Follow(snake.segments, 2, newHead, angle, <<newHead>>),
                   !.angle = angle,
                   !.isPlayer = FALSE]

moveSnake(snake, dt, targetAngle) ==
  LET head == snake.segments[1]
      angle == Steer(snake, dt, targetAngle)
      newHead == [x |-> head.x + Advance(Cos(angle), snake.speed, dt),
                  y |-> head.y + Advance(Sin(angle), snake.speed, dt)]
  IN [snake EXCEPT !.segments = Follow(snake.segments, 2, newHead, angle, <<newHead>>),
                   !.angle = angle]

\* ------------------------------------------------------ hitWall, headHitsBody
\* hitWall as it would be with the far walls forgotten
hitWallNearOnly(head, bounds) ==
  \/ head.x - HEAD_RADIUS * UNIT < 0
  \/ head.y - HEAD_RADIUS * UNIT < 0

hitWall(head, bounds) ==
  \/ head.x - HEAD_RADIUS * UNIT < 0
  \/ head.y - HEAD_RADIUS * UNIT < 0
  \/ head.x + HEAD_RADIUS * UNIT > bounds.width
  \/ head.y + HEAD_RADIUS * UNIT > bounds.height

\* headHitsBody as it would be testing the heads of the other snakes only
headHitsBodyHeadsOnly(snakeId, head, allSnakes) ==
  LET r == (HEAD_RADIUS + BODY_RADIUS) * UNIT
  IN \E k \in 1..Len(allSnakes) :
       /\ allSnakes[k].id # snakeId
       /\ distSq(head, allSnakes[k].segments[1]) < r * r

\* headHitsBody as it would be without skipping the snake's own body
headHitsBodyOwnToo(snakeId, head, allSnakes) ==
  LET r == (HEAD_RADIUS + BODY_RADIUS) * UNIT
  IN \E k \in 1..Len(allSnakes) :
       \E i \in 1..Len(allSnakes[k].segments) :
         /\ allSnakes[k].id = snakeId => i > 1
         /\ distSq(head, allSnakes[k].segments[i]) < r * r

headHitsBody(snakeId, head, allSnakes) ==
  LET r == (HEAD_RADIUS + BODY_RADIUS) * UNIT
  IN \E k \in 1..Len(allSnakes) :
       /\ allSnakes[k].id # snakeId
       /\ \E i \in 1..Len(allSnakes[k].segments) :
            distSq(head, allSnakes[k].segments[i]) < r * r

\* --------------------------------------------------------------------- tick
\* step 1 as it would be with 0 for the target of a snake without an entry
MoveAllZeroDefault(snakes, dt, targetAngles) ==
  [k \in 1..Len(snakes) |->
     LET s == snakes[k]
         target == IF s.id \in DOMAIN targetAngles THEN targetAngles[s.id] ELSE 0
     IN moveSnake(s, dt, target)]

\* step 1 as it would be if a snake without an entry took the target of some
\* entry there is
MoveAllAnyEntry(snakes, dt, targetAngles) ==
  [k \in 1..Len(snakes) |->
     LET s == snakes[k]
         target == IF s.id \in DOMAIN targetAngles THEN targetAngles[s.id]
                   ELSE IF DOMAIN targetAngles # {}
                        THEN targetAngles[CHOOSE id \in DOMAIN targetAngles : TRUE]
                        ELSE s.angle
     IN moveSnake(s, dt, target)]

\* step 1: every snake steers to its entry of targetAngles, or to its own
\* heading when it has none, and moves
MoveAll(snakes, dt, targetAngles) ==
  [k \in 1..Len(snakes) |->
     LET s == snakes[k]
         target == IF s.id \in DOMAIN targetAngles THEN targetAngles[s.id]
                   ELSE s.angle
     IN moveSnake(s, dt, target)]

RemoveAt(seq, i) == SubSeq(seq, 1, i - 1) \o SubSeq(seq, i + 1, Len(seq))

\* step 2, inner loop: pellets i, i-1, .., 1 tested against one head
RECURSIVE EatLoop(_, _, _, _)

\* the inner loop as it would be if a head that eats cleared the pellets
\* before the one it eats as well
RECURSIVE EatLoopSweep(_, _, _, _)
EatLoopSweep(head, pellets, i, lengthGain) ==
  IF i < 1 THEN [pellets |-> pellets, lengthGain |-> lengthGain]
  ELSE IF distSq(head, pellets[i]) < ((PELLET_RADIUS + HEAD_RADIUS) * UNIT)
                                     * ((PELLET_RADIUS + HEAD_RADIUS) * UNIT)
       THEN [pellets |-> SubSeq(pellets, i + 1, Len(pellets)),
             lengthGain |-> lengthGain + pellets[i].value]
       ELSE EatLoopSweep(head, pellets, i - 1, lengthGain)

EatLoop(head, pellets, i, lengthGain) ==
  IF i < 1 THEN [pellets |-> pellets, lengthGain |-> lengthGain]
  ELSE IF distSq(head, pellets[i]) < ((PELLET_RADIUS + HEAD_RADIUS) * UNIT)
                                     * ((PELLET_RADIUS + HEAD_RADIUS) * UNIT)
       THEN EatLoop(head, RemoveAt(pellets, i), i - 1, lengthGain + pellets[i].value)
       ELSE EatLoop(head, pellets, i - 1, lengthGain)

\* the growth as it would be with the loop running once too often
GrowOneMore(snake, lengthGain) ==
  IF lengthGain <= 0 THEN snake
  ELSE LET tail == snake.segments[Len(snake.segments)]
       IN [snake EXCEPT !.segments = snake.segments \o [g \in 1..(lengthGain + 1) |-> tail]]

\* the growth as it would be with the copies put in front of the head
GrowAtHead(snake, lengthGain) ==
  IF lengthGain <= 0 THEN snake
  ELSE LET head == snake.segments[1]
       IN [snake EXCEPT !.segments = [g \in 1..lengthGain |-> head] \o snake.segments]

\* step 2, growth: lengthGain copies of the tail are appended
Grow(snake, lengthGain) ==
  IF lengthGain <= 0 THEN snake
  ELSE LET tail == snake.segments[Len(snake.segments)]
       IN [snake EXCEPT !.segments = snake.segments \o [g \in 1..lengthGain |-> tail]]

\* step 2, outer map: snakes k, k+1, .. eat from what the earlier ones left;
\* gains collects the lengthGain of each snake
RECURSIVE EatAll(_, _, _, _, _)

\* step 2 as it would be if every snake tested the pellets the tick began
\* with, the eaten ones being removed only after the last snake
RECURSIVE EatAllUnthreaded(_, _, _, _, _)
EatAllUnthreaded(snakes, k, pellets, acc, gains) ==
  IF k > Len(snakes)
  THEN [snakes |-> acc,
        pellets |-> SelectSeq(pellets, LAMBDA p :
                      \A j \in 1..Len(acc) :
                        distSq(acc[j].segments[1], p)
                          >= ((PELLET_RADIUS + HEAD_RADIUS) * UNIT)
                             * ((PELLET_RADIUS + HEAD_RADIUS) * UNIT)),
        gains |-> gains]
  ELSE LET e == EatLoop(snakes[k].segments[1], pellets, Len(pellets), 0)
       IN EatAllUnthreaded(snakes, k + 1, pellets,
                           Append(acc, Grow(snakes[k], e.lengthGain)),
                           Append(gains, e.lengthGain))

EatAll(snakes, k, pellets, acc, gains) ==
  IF k > Len(snakes) THEN [snakes |-> acc, pellets |-> pellets, gains |-> gains]
  ELSE LET e == EatLoop(snakes[k].segments[1], pellets, Len(pellets), 0)
       IN EatAll(snakes, k + 1, e.pellets, Append(acc, Grow(snakes[k], e.lengthGain)),
                 Append(gains, e.lengthGain))

\* step 3: the ids added to the Set deadIds, in insertion order
RECURSIVE DeadLoop(_, _, _, _)

\* the death loop as it would be if a snake found dead were removed at once,
\* so that the snakes tested later no longer meet it
RECURSIVE DeadLoopSequential(_, _, _, _)
DeadLoopSequential(snakes, k, bounds, acc) ==
  IF k > Len(snakes) THEN acc
  ELSE LET s == snakes[k]
           left == SelectSeq(snakes,
                     LAMBDA t : ~(\E j \in 1..Len(acc) : acc[j] = t.id))
           dies == hitWall(s.segments[1], bounds)
                   \/ headHitsBody(s.id, s.segments[1], left)
       IN DeadLoopSequential(snakes, k + 1, bounds,
                             IF dies THEN Append(acc, s.id) ELSE acc)

DeadLoop(snakes, k, bounds, acc) ==
  IF k > Len(snakes) THEN acc
  ELSE LET s == snakes[k]
           dies == hitWall(s.segments[1], bounds)
                   \/ headHitsBody(s.id, s.segments[1], snakes)
           has == \E j \in 1..Len(acc) : acc[j] = s.id
       IN DeadLoop(snakes, k + 1, bounds,
                   IF dies /\ ~has THEN Append(acc, s.id) ELSE acc)

\* the filter as it would be looking up the snake, not its id, in deadIds:
\* no snake is found there, and all are kept
SurvivorsAll(snakes, deadIds) ==
  SelectSeq(snakes, LAMBDA s : Len(deadIds) >= 0)

\* the filter as it would be sparing the player
SurvivorsAndPlayer(snakes, deadIds) ==
  SelectSeq(snakes, LAMBDA s :
    s.isPlayer \/ ~(\E j \in 1..Len(deadIds) : deadIds[j] = s.id))

\* step 4: snakes.filter(s => !deadIds.has(s.id))
Survivors(snakes, deadIds) ==
  SelectSeq(snakes, LAMBDA s : ~(\E j \in 1..Len(deadIds) : deadIds[j] = s.id))

\* state.snakes.find(s => s.id === id): the index of the first match, 0 if none
Find(snakes, id) ==
  IF \E k \in 1..Len(snakes) : snakes[k].id = id
  THEN CHOOSE k \in 1..Len(snakes) :
         /\ snakes[k].id = id
         /\ \A j \in 1..(k - 1) : snakes[j].id # id
  ELSE 0

\* the drop as it would be with the loop running once too often
DropOneExtra(dead) ==
  LET n == Len(dead.segments)
      count == Max(1, (n * DEATH_PELLET_FRACTION_NUM) \div DEATH_PELLET_FRACTION_DEN)
      step == Max(1, n \div count)
  IN [i \in 1..(count + 1) |->
        LET seg == dead.segments[Min((i - 1) * step, n - 1) + 1]
        IN [x |-> seg.x, y |-> seg.y, value |-> PELLET_VALUE]]

\* step 4: the pellets pushed for one dead snake
DropOne(dead) ==
  LET n == Len(dead.segments)
      count == Max(1, (n * DEATH_PELLET_FRACTION_NUM) \div DEATH_PELLET_FRACTION_DEN)
      step == Max(1, n \div count)
  IN [i \in 1..count |->
        LET seg == dead.segments[Min((i - 1) * step, n - 1) + 1]
        IN [x |-> seg.x, y |-> seg.y, value |-> PELLET_VALUE]]

\* step 4: the pellets pushed for deadIds[j], deadIds[j+1], ..; the dead snake
\* is looked up in the snakes of the state tick was called with
RECURSIVE DropAll(_, _, _)
DropAll(inputSnakes, deadIds, j) ==
  IF j > Len(deadIds) THEN << >>
  ELSE LET k == Find(inputSnakes, deadIds[j])
       IN (IF k = 0 THEN << >> ELSE DropOne(inputSnakes[k]))
          \o DropAll(inputSnakes, deadIds, j + 1)

\* minX + Math.random() * (maxX - minX), rnd the random number in thousandths
Scatter(extent, rnd) ==
  LET lo == ARENA_PADDING * UNIT
      hi == extent - ARENA_PADDING * UNIT
  IN lo + (rnd * (hi - lo)) \div 1000

\* the timer as it would be if the time overrun were carried over
NextSpawnCarry(nextPelletSpawn, dt) ==
  IF nextPelletSpawn - dt <= 0 THEN nextPelletSpawn - dt + PELLET_SPAWN_INTERVAL * 1000
  ELSE nextPelletSpawn - dt

\* the spawned pellet as it would be with a random value too
SpawnPelletAnyValue(bounds, rx, ry) ==
  [x |-> Scatter(bounds.width, rx),
   y |-> Scatter(bounds.height, ry),
   value |-> PELLET_VALUE + (rx % 2)]

\* step 5: the pellet pushed when the timer has run out
SpawnPellet(bounds, rx, ry) ==
  [x |-> Scatter(bounds.width, rx),
   y |-> Scatter(bounds.height, ry),
   value |-> PELLET_VALUE]

\* the timer as it would be if it were reset only once it is below zero
NextSpawnBelowZero(nextPelletSpawn, dt) ==
  IF nextPelletSpawn - dt < 0 THEN PELLET_SPAWN_INTERVAL * 1000
  ELSE nextPelletSpawn - dt

\* step 5: nextPelletSpawn after the tick
NextSpawn(nextPelletSpawn, dt) ==
  IF nextPelletSpawn - dt <= 0 THEN PELLET_SPAWN_INTERVAL * 1000
  ELSE nextPelletSpawn - dt

\* tick(state, dt, targetAngles); rx, ry are the two Math.random() results.
\* The record returned holds the result (state, deadIds), the values of the
\* local variables after each step, and inputPellets: the array state.pellets
\* of the caller as the call leaves it (the pushes of steps 4 and 5 go to
\* that very array as long as step 2 has not replaced it by a copy).
tick(state, dt, targetAngles, rx, ry) ==
  LET moved == MoveAll(state.snakes, dt, targetAngles)
      eat == EatAll(moved, 1, state.pellets, << >>, << >>)
      grown == eat.snakes
      deadIds == DeadLoop(grown, 1, state.bounds, << >>)
      dropped == DropAll(state.snakes, deadIds, 1)
      fires == state.nextPelletSpawn - dt <= 0
      spawned == IF fires THEN << SpawnPellet(state.bounds, rx, ry) >> ELSE << >>
      pellets == eat.pellets \o dropped \o spawned
      copied == Len(eat.pellets) # Len(state.pellets)
  IN [state |-> [state EXCEPT !.snakes = Survivors(grown, deadIds),
                              !.pellets = pellets,
                              !.nextPelletSpawn = NextSpawn(state.nextPelletSpawn, dt)],
      deadIds |-> deadIds,
      moved |-> moved,
      grown |-> grown,
      gains |-> eat.gains,
      remaining |-> eat.pellets,
      dropped |-> dropped,
      spawned |-> spawned,
      inputPellets |-> IF copied THEN state.pellets ELSE pellets]

\* ------------------------------------------------------- createInitialState
COLORS == << "#33cc33", "#e74c3c", "#3498db", "#f1c40f",
             "#9b59b6", "#1abc9c", "#e67e22", "#2ecc71" >>

\* the snake as it would be if all were numbered, the first one too
SnakeAtNumbered(i, x, y, angle, n) ==
  [id |-> "snake-" \o ToString(i),
   segments |-> [s \in 1..n |->
                   [x |-> x - RDiv(Cos(angle) * (s - 1) * SEGMENT_SPACING * UNIT, 1000),
                    y |-> y - RDiv(Sin(angle) * (s - 1) * SEGMENT_SPACING * UNIT, 1000)]],
   angle |-> angle,
   speed |-> DEFAULT_SPEED,
   turnSpeed |-> TURN_SPEED,
   color |-> IF i = 0 THEN "#00ff88" ELSE COLORS[(i % Len(COLORS)) + 1],
   isPlayer |-> i = 0]

\* the snake createInitialState builds in round i of its loop, with its head
\* at (x, y), heading angle and n segments (INITIAL_LENGTH in
\* createInitialState itself): a straight tail behind the head
SnakeAt(i, x, y, angle, n) ==
  [id |-> IF i = 0 THEN "player" ELSE "snake-" \o ToString(i),
   segments |-> [s \in 1..n |->
                   [x |-> x - RDiv(Cos(angle) * (s - 1) * SEGMENT_SPACING * UNIT, 1000),
                    y |-> y - RDiv(Sin(angle) * (s - 1) * SEGMENT_SPACING * UNIT, 1000)]],
   angle |-> angle,
   speed |-> DEFAULT_SPEED,
   turnSpeed |-> TURN_SPEED,
   color |-> IF i = 0 THEN "#00ff88" ELSE COLORS[(i % Len(COLORS)) + 1],
   isPlayer |-> i = 0]

\* the same with the head given in whole world units
NewSnake(i, x, y, angle, n) == SnakeAt(i, x * UNIT, y * UNIT, angle, n)

Pellet(x, y, value) == [x |-> x * UNIT, y |-> y * UNIT, value |-> value]

\* the GameState record createInitialState returns
GameState(snakes, pellets, width, height, timer) ==
  [snakes |-> snakes,
   pellets |-> pellets,
   bounds |-> [width |-> width * UNIT, height |-> height * UNIT],
   nextSnakeId |-> Len(snakes),
   nextPelletSpawn |-> timer]

\* ------------------------------------------------------------- the games
\* The games tick is applied to: the arena is 300 x 300, and the snakes and
\* pellets are placed where the scenarios of the specification place them.
\*  "wall"    the player, 20 segments long, heads for the right wall with a
\*            pellet on its head; a bot of one segment has a pellet ahead;
\*            a second bot heads for the flank of the player
\*  "heads"   the player and a bot face each other, a second bot stays clear
\*  "body"    a bot heads for the flank of the long player
\*  "doomed"  the player is one frame from the right wall, two bots are far
\*  "last"    the only bot is one frame from the right wall
\*  "shared"  the heads of the player and of a bot are both in range of one
\*            pellet of value 2; two more pellets share one position
Scenarios == {"wall", "heads", "body", "shared"}

ScenarioSnakes(sc) ==
  CASE sc = "wall"   -> << NewSnake(0, 280, 150, 0, 20), NewSnake(1, 60, 250, 0, 1),
                           NewSnake(2, 204, 179, -90, 2) >>
    [] sc = "heads"  -> << NewSnake(0, 130, 150, 0, 3), NewSnake(1, 170, 150, 180, 3),
                           NewSnake(2, 150, 200, -90, 4) >>
    [] sc = "body"   -> << NewSnake(0, 200, 150, 0, 10), NewSnake(1, 150, 175, -90, 3) >>
    [] sc = "shared" -> << NewSnake(0, 100, 100, 0, 1), NewSnake(1, 100, 124, 0, 2) >>
    [] sc = "doomed" -> << NewSnake(0, 289, 150, 0, 3), NewSnake(1, 100, 100, 0, 3),
                           NewSnake(2, 100, 200, 0, 3) >>
    [] sc = "last"   -> << NewSnake(0, 100, 100, 0, 3), NewSnake(1, 289, 200, 0, 3) >>

ScenarioPellets(sc) ==
  CASE sc = "wall"   -> << Pellet(280, 150, 1), Pellet(150, 40, 1), Pellet(72, 250, 2) >>
    [] sc = "heads"  -> << Pellet(40, 40, 1) >>
    [] sc = "body"   -> << >>
    [] sc = "doomed" -> << >>
    [] sc = "last"   -> << >>
    [] sc = "shared" -> << Pellet(260, 260, 1), Pellet(106, 112, 2), Pellet(120, 100, 1),
                           Pellet(120, 100, 1) >>

\* nextPelletSpawn of the games, in milliseconds: the full interval, and
\* timers about to run out
Timers == {PELLET_SPAWN_INTERVAL * 1000, 100, 10}

\* the frame times dt, in milliseconds
Dts == {20, 100, 250}

\* Math.random(), in thousandths
Randoms == {0, 999}

\* the steering inputs: who is steered, and to which heading
Headings == {90, -225}
Steerings == {<< "none", 0 >>} \cup ({"player", "all"} \X Headings)

\* the results of the calls of Math.random() one tick makes: it makes them
\* only when the spawn timer runs out
RandomsOf(st, d) == IF st.nextPelletSpawn - d <= 0 THEN Randoms ELSE {0}

\* targetAngles: "all" steers every snake of the state and also names an id
\* no snake has
TargetAngles(state, who, heading) ==
  LET ids == {state.snakes[k].id : k \in 1..Len(state.snakes)}
      dom == CASE who = "none" -> {}
               [] who = "player" -> {"player"}
               [] who = "all" -> ids \cup {"snake-99"}
  IN [id \in dom |-> heading]

\* ------------------------------------------------------------------ state
VARIABLES
  state,          \* the GameState the caller holds (the latest one returned)
  deadIds,        \* deadIds of the last tick
  input,          \* the state the last tick was called with, as it was then
  dt,             \* dt of the last tick
  targetAngles,   \* targetAngles of the last tick
  moved,          \* the last tick's snakes after step 1 (movement)
  grown,          \* the last tick's snakes after step 2 (pellets, growth)
  remaining,      \* the last tick's pellets after step 2
  dropped,        \* the pellets the last tick pushed for dead snakes
  spawned,        \* the pellets the last tick pushed for the spawn timer
  inputPellets,   \* input.pellets as the last tick left that array
  gains,          \* the last tick's lengthGain of each snake, in order
  fed,            \* id -> the lengthGain credited to the snake in all ticks
  obituary,       \* the deadIds of all ticks of the game, one after the other
  start,          \* the state the game started with
  ticks,          \* the number of ticks applied
  create,         \* the locals of the call of createInitialState under way
  page,           \* the state, the refs and the pending callbacks of the page
  clock,          \* the spawn timer of a game ticked on and on, as a double
  grid            \* the state and the refs of the grid game

vars == << state, deadIds, input, dt, targetAngles, moved, grown, remaining,
           dropped, spawned, inputPellets, gains, fed, obituary, start, ticks, create,
           page, clock, grid >>

\* the caller holds the state st, and no tick has been applied to it
Holding(st) ==
  /\ state = st
  /\ deadIds = << >>
  /\ input = st
  /\ dt = 0
  /\ targetAngles = [id \in {} |-> 0]
  /\ moved = st.snakes
  /\ grown = st.snakes
  /\ remaining = st.pellets
  /\ dropped = << >>
  /\ spawned = << >>
  /\ inputPellets = st.pellets
  /\ gains = [k \in 1..Len(st.snakes) |-> 0]
  /\ fed = [id \in {st.snakes[k].id : k \in 1..Len(st.snakes)} |-> 0]
  /\ obituary = << >>
  /\ start = st
  /\ ticks = 0

\* the locals of createInitialState(options) at the start of its first loop
Locals(numBots, numPellets, width, height) ==
  [pc |-> "loops",
   numBots |-> numBots,
   numPellets |-> numPellets,
   bounds |-> [width |-> width * UNIT, height |-> height * UNIT],
   i |-> 0,
   p |-> 0,
   x |-> 0,
   y |-> 0,
   key |-> << 0, 0 >>,
   usedPositions |-> {},
   snakes |-> << >>,
   pellets |-> << >>]

\* the page as it is mounted, at time 0: a value that is null is << >>, one
\* that is set is << value >>
Mounted ==
  [mounted |-> TRUE,
   running |-> FALSE,
   faceEnabled |-> TRUE,
   raf |-> 0,
   pending |-> {},
   limit |-> MaxFrames,
   restarts |-> 0,
   calibrationCountdown |-> << CALIBRATION_DELAY_SEC >>,
   now |-> 0,
   lastTime |-> 0,
   playerTurn |-> 0,
   playerCVAngle |-> << >>,
   playerMouseWorld |-> << >>,
   speedBoostStartTime |-> << >>,
   speedBoostEndTime |-> << >>,
   speedBoostCooldownEndTime |-> << >>,
   playerDeadSnake |-> << >>,
   winTimeout |-> FALSE,
   showWinOverlay |-> FALSE,
   boosts |-> << >>,
   waits |-> 0,
   measured |-> 0,
   playerSpeedMultiplier |-> 1000,
   frames |-> 0]

\* there is no page
NoPage == [Mounted EXCEPT !.mounted = FALSE]

\* no call of createInitialState is under way
NoCall == [Locals(0, 0, 0, 0) EXCEPT !.pc = "none"]

\* The spawn timer as the double it is: its value is nextPelletSpawn
\* milliseconds and what the roundings of the subtractions have left of it,
\* of which ulps keeps the sign (it is far below a millisecond); quiet counts
\* the ticks since the last spawn.
FreshClock ==
  [on |-> TRUE, nextPelletSpawn |-> PELLET_SPAWN_INTERVAL * 1000, ulps |-> 0, quiet |-> 0]

\* no such timer is followed
NoClock == [FreshClock EXCEPT !.on = FALSE]

\* The grid game as App mounts it: the state (snake, food, direction, running,
\* score, best, status), the refs queuedDirection and lastDirectionRef, the
\* clock of the page (now, nextStep: when the interval fires next), and of the
\* game under way the number of its steps and the direction applied at the
\* step before the last.
FreshSnake == << [x |-> 6, y |-> 9], [x |-> 5, y |-> 9], [x |-> 4, y |-> 9] >>

FreshGrid ==
  [on |-> TRUE,
   snake |-> FreshSnake,
   food |-> [x |-> 8, y |-> 9],
   direction |-> [x |-> 1, y |-> 0],
   queuedDirection |-> [x |-> 1, y |-> 0],
   running |-> FALSE,
   score |-> 0,
   best |-> 0,
   status |-> "Press Start",
   lastDirection |-> 0,
   now |-> 1000,
   nextStep |-> 0,
   steps |-> 0,
   previous |-> [x |-> 1, y |-> 0],
   total |-> 0,
   headFrames |-> 0]

\* there is no grid game
NoGrid == [FreshGrid EXCEPT !.on = FALSE]

Init ==
  /\ \E sc \in Scenarios, timer \in Timers :
       Holding(GameState(ScenarioSnakes(sc), ScenarioPellets(sc), 300, 300, timer))
  /\ create = NoCall
  /\ page = NoPage
  /\ clock = NoClock
  /\ grid = NoGrid

\* one call of tick with the frame time d and the steering steer: the caller
\* ticks the state it holds and keeps the result
Call(d, steer) ==
  /\ ticks < MaxTicks
  /\ \E rx \in RandomsOf(state, d), ry \in RandomsOf(state, d) :
     \E ta \in {TargetAngles(state, steer[1], steer[2])} :
     \E r \in {tick(state, d, ta, rx, ry)} :
          /\ state' = r.state
          /\ deadIds' = r.deadIds
          /\ input' = state
          /\ dt' = d
          /\ targetAngles' = ta
          /\ moved' = r.moved
          /\ grown' = r.grown
          /\ remaining' = r.remaining
          /\ dropped' = r.dropped
          /\ spawned' = r.spawned
          /\ inputPellets' = r.inputPellets
          /\ gains' = r.gains
          /\ obituary' = obituary \o r.deadIds
          /\ fed' = [id \in DOMAIN fed |->
                       IF \E k \in 1..Len(state.snakes) : state.snakes[k].id = id
                       THEN fed[id] + r.gains[CHOOSE k \in 1..Len(state.snakes) :
                                                 state.snakes[k].id = id]
                       ELSE fed[id]]
  /\ start' = start
  /\ ticks' = ticks + 1
  /\ UNCHANGED << create, page, clock, grid >>

Tick == \E d \in Dts, steer \in Steerings : Call(d, steer)

Next == Tick

Spec == Init /\ [][Next]_vars

\* A caller of tick whose clock may stand still between two frames and who
\* may steer to the heading -pi; it starts with the timer createInitialState
\* sets
StillDts == {0, 100, 250}
StillSteerings == Steerings \cup ({"player", "all"} \X {-PI})

MoveInit ==
  /\ \E sc \in Scenarios :
       Holding(GameState(ScenarioSnakes(sc), ScenarioPellets(sc), 300, 300,
                         PELLET_SPAWN_INTERVAL * 1000))
  /\ create = NoCall
  /\ page = NoPage
  /\ clock = NoClock
  /\ grid = NoGrid

\* one frame of that caller
Move == \E d \in StillDts, steer \in StillSteerings : Call(d, steer)

MoveNext == Move

SpecMove == MoveInit /\ [][MoveNext]_vars

\* ---------------------------------------------------- the spawn timer
\* the variables of the ticks
tickVars == << deadIds, input, dt, targetAngles, moved, grown, remaining,
               dropped, spawned, inputPellets, gains, fed, obituary, ticks >>

\* tick called on and on with frame times of 0.2 s and more. Only the timer
\* is followed: step 5 of tick reads nothing but nextPelletSpawn and dt.
TimerDts == {200, 250}

\* the smallest of these frame times, and the ticks it takes to run through
\* PELLET_SPAWN_INTERVAL
MinDt == CHOOSE d \in TimerDts : \A e \in TimerDts : d <= e
Window == (PELLET_SPAWN_INTERVAL * 1000 + MinDt - 1) \div MinDt

\* dt seconds is a binary fraction (a multiple of 1/8 s), so that subtracting
\* it rounds nothing
Exact(d) == d % 125 = 0

\* step 5 as it would be resetting the timer to twice the interval
SpawnCountdownTwice(timer, d, rounding) ==
  LET ms == timer.nextPelletSpawn - d
      ulps == IF Exact(d) THEN timer.ulps ELSE rounding
  IN IF ms < 0 \/ (ms = 0 /\ ulps <= 0)
     THEN [timer EXCEPT !.nextPelletSpawn = 2 * PELLET_SPAWN_INTERVAL * 1000,
                        !.ulps = 0, !.quiet = 0]
     ELSE [timer EXCEPT !.nextPelletSpawn = ms, !.ulps = ulps,
                        !.quiet = Min(@ + 1, Window + 2)]

\* step 5 of tick on the double: nextPelletSpawn -= dt rounds to the nearest
\* double (rounding is the sign of what is left over after it), and the test
\* nextPelletSpawn <= 0 sees that rest when the milliseconds are 0
SpawnCountdown(timer, d, rounding) ==
  LET ms == timer.nextPelletSpawn - d
      ulps == IF Exact(d) THEN timer.ulps ELSE rounding
  IN IF ms < 0 \/ (ms = 0 /\ ulps <= 0)
     THEN [timer EXCEPT !.nextPelletSpawn = PELLET_SPAWN_INTERVAL * 1000,
                        !.ulps = 0, !.quiet = 0]
     ELSE [timer EXCEPT !.nextPelletSpawn = ms, !.ulps = ulps,
                        !.quiet = Min(@ + 1, Window + 2)]

TimerInit ==
  /\ Holding(GameState(<< >>, << >>, 300, 300, PELLET_SPAWN_INTERVAL * 1000))
  /\ create = NoCall
  /\ page = NoPage
  /\ clock = FreshClock
  /\ grid = NoGrid

\* one more tick
TickOn ==
  /\ clock.on
  /\ \E d \in TimerDts, rounding \in {-1, 0, 1} :
       clock' = SpawnCountdown(clock, d, rounding)
  /\ UNCHANGED << state, start, tickVars, create, page, grid >>

TimerNext == TickOn

SpecTimer == TimerInit /\ [][TimerNext]_vars

\* tick is called again and again
FairSpecTimer == SpecTimer /\ WF_vars(TickOn)

\* ------------------------------------------------------ createInitialState
\* The call of createInitialState, one pass of a loop at a time. The arena is
\* SmallArena wide and high: the spawn points of the snakes fall in four cells
\* of the 50-unit grid, and Randoms reaches every one of them.

\* the cell of the 50-unit grid the point (x, y) lies in
Key(x, y) == << x \div (50 * UNIT), y \div (50 * UNIT) >>

\* Math.random() * 2 * Math.PI - Math.PI, rnd the random number in thousandths
RandomAngle(rnd) == (rnd * 2 * PI) \div 1000 - PI

CreateInit ==
  /\ Holding(GameState(<< >>, << >>, SmallArena, SmallArena, 0))
  /\ \E numBots \in 0..MaxBots, numPellets \in 0..MaxPellets :
       create = Locals(numBots, numPellets, SmallArena, SmallArena)
  /\ page = NoPage
  /\ clock = NoClock
  /\ grid = NoGrid

\* a pass of the do-while loop that drew a cell already used: it draws again
Retry ==
  /\ create.pc = "loops"
  /\ create.i < create.numBots
  /\ \E rx \in Randoms, ry \in Randoms :
       LET x == Scatter(create.bounds.width, rx)
           y == Scatter(create.bounds.height, ry)
       IN /\ Key(x, y) \in create.usedPositions
          /\ create' = [create EXCEPT !.x = x, !.y = y, !.key = Key(x, y)]
  /\ UNCHANGED << state, start, tickVars, page, clock, grid >>

\* a pass of the do-while loop that drew a free cell, and the rest of the
\* round of the for loop: the snake is built and pushed
Place ==
  /\ create.pc = "loops"
  /\ create.i < create.numBots
  /\ \E rx \in Randoms, ry \in Randoms, ra \in Randoms :
       LET x == Scatter(create.bounds.width, rx)
           y == Scatter(create.bounds.height, ry)
       IN /\ Key(x, y) \notin create.usedPositions
          /\ create' = [create EXCEPT
                          !.x = x, !.y = y, !.key = Key(x, y),
                          !.usedPositions = @ \cup {Key(x, y)},
                          !.snakes = Append(@, SnakeAt(create.i, x, y, RandomAngle(ra),
                                                       INITIAL_LENGTH)),
                          !.i = @ + 1]
  /\ UNCHANGED << state, start, tickVars, page, clock, grid >>

\* a round of the pellet loop
AddPellet ==
  /\ create.pc = "loops"
  /\ create.i >= create.numBots
  /\ create.p < create.numPellets
  /\ \E rx \in Randoms, ry \in Randoms :
       create' = [create EXCEPT
                    !.pellets = Append(@, [x |-> Scatter(create.bounds.width, rx),
                                           y |-> Scatter(create.bounds.height, ry),
                                           value |-> PELLET_VALUE]),
                    !.p = @ + 1]
  /\ UNCHANGED << state, start, tickVars, page, clock, grid >>

\* the return: the caller holds the new state
Return ==
  /\ create.pc = "loops"
  /\ create.i >= create.numBots
  /\ create.p >= create.numPellets
  /\ create' = [create EXCEPT !.pc = "done"]
  /\ state' = [snakes |-> create.snakes,
               pellets |-> create.pellets,
               bounds |-> create.bounds,
               nextSnakeId |-> create.numBots,
               nextPelletSpawn |-> PELLET_SPAWN_INTERVAL * 1000]
  /\ start' = state'
  /\ UNCHANGED << tickVars, page, clock, grid >>

CreateNext == Retry \/ Place \/ AddPellet \/ Return

SpecCreate == CreateInit /\ [][CreateNext]_vars

\* Math.random() is uniform, so a pass that can draw a free cell does so in
\* the end, and the loops go on while they can
FairSpecCreate ==
  SpecCreate /\ WF_vars(Retry) /\ SF_vars(Place) /\ WF_vars(AddPellet) /\ WF_vars(Return)

\* ------------------------------------------------- a game from creation on
\* createInitialState builds a small game, and the caller ticks what it
\* returned.
\* numPellets of these games
GamePellets == {0, 1}

GameInit ==
  /\ Holding(GameState(<< >>, << >>, SmallArena, SmallArena, 0))
  /\ \E numBots \in 0..GameBots, numPellets \in GamePellets :
       create = Locals(numBots, numPellets, SmallArena, SmallArena)
  /\ page = NoPage
  /\ clock = NoClock
  /\ grid = NoGrid

\* the frame times and the steering inputs of these games
PlayDts == {100}
PlaySteerings == {<< "none", 0 >>, << "player", 90 >>, << "all", -PI >>}

\* one frame of the created game
Play ==
  /\ create.pc = "done"
  /\ \E d \in PlayDts, steer \in PlaySteerings : Call(d, steer)

GameNext == Retry \/ Place \/ AddPellet \/ Return \/ Play

SpecGame == GameInit /\ [][GameNext]_vars

\* ------------------------------------------------------------ SlitherPage
\* The page: its clock (page.now, milliseconds, for performance.now() and
\* Date.now() alike) moves in the callbacks that wait for time to pass, the
\* countdown interval and the animation frame.

\* the time between two animation frames, in milliseconds
Deltas == {FIXED_DT, 200, 201, 6000}

\* what handleAngleChange and handleMouseMove are called with
CVAngles == {<< >>, << 90 >>}
MousePoints == {[x |-> 150 * UNIT, y |-> 50 * UNIT]}

\* the games of the page
PageScenarios == {"heads", "body"}

\* Math.atan2(dy, dx) in degrees: the direction (dx, dy) points along best,
\* sought among the multiples of 15 degrees first and around the best of them
\* next
Atan2(dy, dx) ==
  LET Along(a) == dx * Cos(normalizeAngle(a)) + dy * Sin(normalizeAngle(a))
      coarse == CHOOSE a \in {15 * k - PI : k \in 1..24} :
                  \A b \in {15 * k - PI : k \in 1..24} : Along(a) >= Along(b)
      fine == CHOOSE a \in (coarse - 15)..(coarse + 15) :
                \A b \in (coarse - 15)..(coarse + 15) : Along(a) >= Along(b)
  IN IF dx = 0 /\ dy = 0 THEN 0 ELSE normalizeAngle(fine)

\* an angle of r thousandths of a radian in degrees, to the nearest
ToDegrees(r) == RDiv(r * PI * 1000, 3141593)

\* computeTargetAngles as it would be steering only the bot it meets first
computeTargetAnglesFirstBot(st) ==
  LET bots == {k \in 1..Len(st.snakes) : ~st.snakes[k].isPlayer}
      first == {k \in bots : \A j \in bots : k <= j}
  IN [id \in {st.snakes[k].id : k \in first} |->
        (CHOOSE s \in {st.snakes[k] : k \in 1..Len(st.snakes)} : s.id = id).angle]

\* computeTargetAngles(state): an entry for every snake that is not the
\* player, a function of the state alone
computeTargetAngles(st) ==
  [id \in {st.snakes[k].id : k \in {j \in 1..Len(st.snakes) : ~st.snakes[j].isPlayer}} |->
     (CHOOSE s \in {st.snakes[k] : k \in 1..Len(st.snakes)} : s.id = id).angle]

\* the player's target of the frame
PlayerTarget(playerSnake, d) ==
  IF page.faceEnabled /\ page.playerCVAngle # << >>
  THEN normalizeAngle(page.playerCVAngle[1])
  ELSE IF page.playerMouseWorld # << >>
  THEN normalizeAngle(Atan2(page.playerMouseWorld[1].y - playerSnake.segments[1].y,
                            page.playerMouseWorld[1].x - playerSnake.segments[1].x))
  ELSE IF page.playerTurn # 0
  THEN normalizeAngle(playerSnake.angle
                        + ToDegrees(page.playerTurn * PLAYER_TURN_RATE * d))
  ELSE playerSnake.angle

\* targetAngles of the frame: the bots' and, if there is a player, its own
FrameTargets(current, d) ==
  LET bots == computeTargetAngles(current)
      players == {k \in 1..Len(current.snakes) : current.snakes[k].isPlayer}
  IN IF players = {} THEN bots
     ELSE LET playerSnake == current.snakes[CHOOSE k \in players : \A j \in players : k <= j]
          IN [id \in DOMAIN bots \cup {"player"} |->
                IF id = "player" THEN PlayerTarget(playerSnake, d) ELSE bots[id]]

\* the frame delta as it would be applied with no clamp
ClampNever(measured) == measured

\* if (dt > 0.2) dt = FIXED_DT
Clamp(measured) == IF measured > 200 THEN FIXED_DT ELSE measured

\* requestAnimationFrame(loop): the id of the new callback, one no callback
\* of the page has or had
NewFrameId(p) ==
  CHOOSE id \in 1..(Cardinality(p.pending) + 2) : id \notin p.pending \cup {p.raf}

\* the loop effect as it would be returning no cleanup
LoopEffectNoCleanup(p, was, is) ==
  IF is THEN [p EXCEPT !.pending = @ \cup {NewFrameId(p)}, !.raf = NewFrameId(p)]
  ELSE p

\* The loop effect after a render in which running or faceEnabled changed: the
\* cleanup of the effect that ran with running = was cancels the callback its
\* raf names, and the effect runs with running = is and requests a callback.
\* page.raf is the raf of the latest effect, page.pending the callbacks
\* requested and neither run nor cancelled.
LoopEffect(p, was, is) ==
  LET cleaned == [p EXCEPT !.pending = IF was THEN @ \ {p.raf} ELSE @]
  IN IF is
     THEN [cleaned EXCEPT !.pending = @ \cup {NewFrameId(cleaned)},
                          !.raf = NewFrameId(cleaned)]
     ELSE cleaned

PageInit ==
  /\ \E sc \in PageScenarios :
       Holding(GameState(ScenarioSnakes(sc), ScenarioPellets(sc), 300, 300,
                         PELLET_SPAWN_INTERVAL * 1000))
  /\ create = NoCall
  /\ page = Mounted
  /\ clock = NoClock
  /\ grid = NoGrid

\* the one-second interval of the calibration countdown
Countdown ==
  /\ page.calibrationCountdown # << >>
  /\ page.frames < page.limit
  /\ LET ends == page.calibrationCountdown[1] <= 1
         counted == [page EXCEPT
                       !.now = @ + 1000,
                       !.calibrationCountdown =
                          IF ends THEN << >> ELSE << page.calibrationCountdown[1] - 1 >>,
                       !.running = IF ends THEN TRUE ELSE @]
     IN page' = IF ends /\ ~page.running THEN LoopEffect(counted, FALSE, TRUE)
                ELSE counted
  /\ UNCHANGED << state, start, tickVars, create, clock, grid >>

\* the Pause / Resume button: the loop effect cancels or requests the frame
PauseResume ==
  /\ page.mounted
  /\ page.frames < page.limit
  /\ page' = LoopEffect([page EXCEPT !.running = ~@], page.running, ~page.running)
  /\ UNCHANGED << state, start, tickVars, create, clock, grid >>

handleAngleChange ==
  /\ page.mounted
  /\ page.frames < page.limit
  /\ \E angle \in CVAngles : page' = [page EXCEPT !.playerCVAngle = angle]
  /\ UNCHANGED << state, start, tickVars, create, clock, grid >>

handleMouseMove ==
  /\ page.mounted
  /\ page.frames < page.limit
  /\ \E point \in MousePoints : page' = [page EXCEPT !.playerMouseWorld = << point >>]
  /\ UNCHANGED << state, start, tickVars, create, clock, grid >>

\* keydown and keyup of ArrowLeft (-1) and ArrowRight (1)
handleKey ==
  /\ page.mounted
  /\ page.frames < page.limit
  /\ \E key \in {-1, 1}, type \in {"keydown", "keyup"} :
       page' = [page EXCEPT !.playerTurn =
                  IF type = "keydown" THEN key
                  ELSE IF page.playerTurn = key THEN 0 ELSE @]
  /\ UNCHANGED << state, start, tickVars, create, clock, grid >>

onMouthOpen ==
  /\ page.mounted
  /\ page.frames < page.limit
  /\ LET cooling == /\ page.speedBoostCooldownEndTime # << >>
                     /\ page.now < page.speedBoostCooldownEndTime[1]
         boosting == /\ page.speedBoostEndTime # << >>
                     /\ page.now < page.speedBoostEndTime[1]
         players == {k \in 1..Len(state.snakes) : state.snakes[k].isPlayer}
     IN IF cooling \/ boosting \/ players = {}
        THEN UNCHANGED page
        ELSE LET playerSnake == state.snakes[CHOOSE k \in players : TRUE]
                 duration == BOOST_BASE_DURATION_MS
                               + Len(playerSnake.segments) * BOOST_DURATION_PER_SCORE_MS
             IN page' = [page EXCEPT !.speedBoostStartTime = << page.now >>,
                                     !.speedBoostEndTime = << page.now + duration >>,
                                     !.boosts = Append(@, [start |-> page.now,
                                                           end |-> page.now + duration])]
  /\ UNCHANGED << state, start, tickVars, create, clock, grid >>

\* the Face checkbox: playerCVAngleRef is cleared when it is switched off,
\* and the loop effect runs again
toggleFace ==
  /\ page.mounted
  /\ page.frames < page.limit
  /\ page' = LoopEffect([page EXCEPT
                           !.faceEnabled = ~@,
                           !.playerCVAngle = IF page.faceEnabled THEN << >> ELSE @],
                        page.running, page.running)
  /\ UNCHANGED << state, start, tickVars, create, clock, grid >>

\* one animation frame, delta after the last event: the callback loop of the
\* loop effect
Frame(delta) ==
  /\ page.frames < page.limit
  /\ \E callback \in page.pending :
     \E now \in {page.now + delta} :
     \E d \in {Clamp(now - page.lastTime)} :
     \E ta \in {FrameTargets(state, d)} :
     \E expired \in {page.speedBoostEndTime # << >> /\ now >= page.speedBoostEndTime[1]} :
     \E multiplier \in {IF ~expired /\ page.speedBoostEndTime # << >>
                                   /\ now < page.speedBoostEndTime[1]
                         THEN BOOST_SPEED_MULTIPLIER ELSE 1000} :
     \E rx \in RandomsOf(state, d), ry \in RandomsOf(state, d) :
     \E r \in {tick(state, d, ta, rx, ry)} :
     \E playerDied \in {/\ \E k \in 1..Len(state.snakes) : state.snakes[k].isPlayer
                         /\ \E j \in 1..Len(r.deadIds) : r.deadIds[j] = "player"} :
     \E onlyPlayerLeft \in {/\ Len(r.state.snakes) = 1
                             /\ r.state.snakes[1].isPlayer} :
          /\ state' = r.state
          /\ deadIds' = r.deadIds
          /\ input' = state
          /\ dt' = d
          /\ targetAngles' = ta
          /\ moved' = r.moved
          /\ grown' = r.grown
          /\ remaining' = r.remaining
          /\ dropped' = r.dropped
          /\ spawned' = r.spawned
          /\ inputPellets' = r.inputPellets
          /\ gains' = r.gains
          /\ obituary' = obituary \o r.deadIds
          /\ fed' = [id \in DOMAIN fed |->
                       IF \E k \in 1..Len(state.snakes) : state.snakes[k].id = id
                       THEN fed[id] + r.gains[CHOOSE k \in 1..Len(state.snakes) :
                                                 state.snakes[k].id = id]
                       ELSE fed[id]]
          /\ page' = LET ran == [page EXCEPT
                        !.pending = @ \ {callback},
                        !.now = now,
                        !.lastTime = now,
                        !.measured = now - page.lastTime,
                        !.speedBoostEndTime = IF expired THEN << >> ELSE @,
                        !.speedBoostStartTime = IF expired THEN << >> ELSE @,
                        !.speedBoostCooldownEndTime =
                           IF expired THEN << now + BOOST_COOLDOWN_MS >> ELSE @,
                        !.playerSpeedMultiplier = multiplier,
                        !.playerDeadSnake =
                           IF playerDied
                           THEN << state.snakes[CHOOSE k \in 1..Len(state.snakes) :
                                                  state.snakes[k].isPlayer] >>
                           ELSE @,
                        !.running = IF playerDied \/ onlyPlayerLeft THEN FALSE ELSE @,
                        !.winTimeout = IF ~playerDied /\ onlyPlayerLeft THEN TRUE ELSE @,
                        !.frames = @ + 1]
                     IN IF playerDied \/ onlyPlayerLeft
                        THEN IF page.running THEN LoopEffect(ran, TRUE, FALSE) ELSE ran
                        ELSE [ran EXCEPT !.pending = @ \cup {NewFrameId(ran)},
                                         !.raf = NewFrameId(ran)]
  /\ start' = start
  /\ ticks' = ticks + 1
  /\ UNCHANGED << create, clock, grid >>

loop == \E delta \in Deltas : Frame(delta)

PageNext ==
  \/ Countdown
  \/ PauseResume
  \/ handleAngleChange
  \/ handleMouseMove
  \/ handleKey
  \/ onMouthOpen
  \/ loop

SpecPage == PageInit /\ [][PageNext]_vars

\* ------------------------------------------------- the life of the loop
\* The page under the events that start and stop its loop: the countdown,
\* Pause / Resume, the Face checkbox, Restart, and frames that come at the
\* steady rate.
LifeScenarios == {"doomed", "last"}
LifeDeltas == {FIXED_DT}

LifeInit ==
  /\ \E sc \in LifeScenarios :
       Holding(GameState(ScenarioSnakes(sc), ScenarioPellets(sc), 300, 300,
                         PELLET_SPAWN_INTERVAL * 1000))
  /\ create = NoCall
  /\ page = [Mounted EXCEPT !.limit = MaxLifeFrames]
  /\ clock = NoClock
  /\ grid = NoGrid

\* the Restart buttons: the page holds a new game, the countdown starts
\* again and running is false
handleRestart ==
  /\ page.mounted
  /\ page.frames < page.limit
  /\ page.restarts < MaxRestarts
  /\ \E sc \in LifeScenarios :
     \E st \in {GameState(ScenarioSnakes(sc), ScenarioPellets(sc), 300, 300,
                          PELLET_SPAWN_INTERVAL * 1000)} :
          /\ state' = st
          /\ deadIds' = << >>
          /\ input' = st
          /\ dt' = 0
          /\ targetAngles' = [id \in {} |-> 0]
          /\ moved' = st.snakes
          /\ grown' = st.snakes
          /\ remaining' = st.pellets
          /\ dropped' = << >>
          /\ spawned' = << >>
          /\ inputPellets' = st.pellets
          /\ gains' = [k \in 1..Len(st.snakes) |-> 0]
          /\ fed' = [id \in {st.snakes[k].id : k \in 1..Len(st.snakes)} |-> 0]
          /\ obituary' = << >>
          /\ start' = st
          /\ ticks' = 0
  /\ page' = LET reset == [page EXCEPT
                             !.showWinOverlay = FALSE,
                             !.boosts = << >>,
                             !.playerDeadSnake = << >>,
                             !.speedBoostEndTime = << >>,
                             !.speedBoostStartTime = << >>,
                             !.speedBoostCooldownEndTime = << >>,
                             !.lastTime = page.now,
                             !.running = FALSE,
                             !.calibrationCountdown = << CALIBRATION_DELAY_SEC >>,
                             !.restarts = @ + 1]
              IN IF page.running THEN LoopEffect(reset, TRUE, FALSE) ELSE reset
  /\ UNCHANGED << create, clock, grid >>

steadyLoop == \E delta \in LifeDeltas : Frame(delta)

\* the callback of the timeout set by the frame that found only the player
\* left: setShowWinOverlay(true). Nothing clears the timeout.
showWin ==
  /\ page.mounted
  /\ page.winTimeout
  /\ page' = [page EXCEPT !.winTimeout = FALSE, !.showWinOverlay = TRUE]
  /\ UNCHANGED << state, start, tickVars, create, clock, grid >>

LifeNext ==
  \/ Countdown
  \/ PauseResume
  \/ toggleFace
  \/ handleRestart
  \/ steadyLoop
  \/ showWin

SpecLife == LifeInit /\ [][LifeNext]_vars

\* ------------------------------------------------------- the speed boost
\* The page under mouth-open events, Pause / Resume and frames, with the time
\* that passes while no frame is requested. page.boosts keeps the start and
\* the end time of every boost onMouthOpen has started in this game.
BoostDeltas == {FIXED_DT, 3000}
Waits == {1000, 2500}

BoostInit ==
  /\ Holding(GameState(ScenarioSnakes("heads"), ScenarioPellets("heads"), 300, 300,
                       PELLET_SPAWN_INTERVAL * 1000))
  /\ create = NoCall
  /\ page = [Mounted EXCEPT !.limit = MaxBoostFrames]
  /\ clock = NoClock
  /\ grid = NoGrid

\* time passes with the loop stopped: no callback of the page runs
elapse ==
  /\ page.mounted
  /\ page.frames < page.limit
  /\ page.pending = {}
  /\ page.calibrationCountdown = << >>
  /\ page.waits < MaxWaits
  /\ \E wait \in Waits :
       page' = [page EXCEPT !.now = @ + wait, !.waits = @ + 1]
  /\ UNCHANGED << state, start, tickVars, create, clock, grid >>

boostLoop == \E delta \in BoostDeltas : Frame(delta)

BoostNext ==
  \/ Countdown
  \/ PauseResume
  \/ onMouthOpen
  \/ elapse
  \/ boostLoop

SpecBoost == BoostInit /\ [][BoostNext]_vars

\* ------------------------------------------------------------ the grid game
\* App: the key handler, the head-tracking loop, the interval of the game and
\* the Start and Pause buttons.
DIRECTIONS ==
  {[x |-> 0, y |-> -1], [x |-> 0, y |-> 1], [x |-> -1, y |-> 0], [x |-> 1, y |-> 0]}

HEAD_DIRECTIONS == DIRECTIONS

\* a.x + b.x === 0 && a.y + b.y === 0
Reverse(a, b) == a.x + b.x = 0 /\ a.y + b.y = 0

\* the cells Math.random() picks in randomFood
FoodSpots == {[x |-> 8, y |-> 9], [x |-> 6, y |-> 7], [x |-> 12, y |-> 3]}

\* the spots randomFood can return: those the snake does not occupy
randomFood(snake) ==
  {spot \in FoodSpots : \A i \in 1..Len(snake) : snake[i] # spot}

\* the time from one frame of the head tracking to the next
FrameGaps == {30, 125}

GridInit ==
  /\ Holding(GameState(<< >>, << >>, 300, 300, PELLET_SPAWN_INTERVAL * 1000))
  /\ create = NoCall
  /\ page = NoPage
  /\ clock = NoClock
  /\ \E spot \in randomFood(<< [x |-> 6, y |-> 9] >>) :
       grid = [FreshGrid EXCEPT !.food = spot]

gridRest == << state, start, tickVars, create, page, clock >>

\* the Start button, with reset() after a game over
handleStart ==
  /\ grid.on
  /\ ~grid.running
  /\ \E spot \in randomFood(FreshSnake) :
       LET fresh == IF grid.status = "Game Over"
                    THEN [grid EXCEPT !.snake = FreshSnake,
                                      !.food = spot,
                                      !.direction = [x |-> 1, y |-> 0],
                                      !.queuedDirection = [x |-> 1, y |-> 0],
                                      !.score = 0,
                                      !.steps = 0,
                                      !.previous = [x |-> 1, y |-> 0]]
                    ELSE grid
       IN grid' = [fresh EXCEPT !.running = TRUE,
                                !.status = "Running",
                                !.nextStep = grid.now + START_SPEED]
  /\ UNCHANGED gridRest

\* the Pause button
handlePause ==
  /\ grid.on
  /\ grid' = [grid EXCEPT !.running = FALSE, !.status = "Paused"]
  /\ UNCHANGED gridRest

\* keydown of an arrow key or of w, a, s, d: the handler compares the key
\* with the direction state
handleKeyGrid ==
  /\ grid.on
  /\ \E next \in DIRECTIONS :
       grid' = IF Reverse(grid.direction, next) THEN grid
               ELSE [grid EXCEPT !.queuedDirection = next]
  /\ UNCHANGED gridRest

\* a frame of the head tracking that saw a face: seen is the mirrored
\* direction of the nose, or nothing with the nose near the middle. The loop
\* compares it with queuedDirection.current.
headLoop ==
  /\ grid.on
  /\ grid.headFrames < MaxHeadFrames
  /\ \E gap \in FrameGaps, seen \in {<< >>} \cup {<< d >> : d \in HEAD_DIRECTIONS} :
       LET now == grid.now + gap
           turns == /\ seen # << >>
                    /\ now - grid.lastDirection > DIRECTION_COOLDOWN
                    /\ ~Reverse(grid.queuedDirection, seen[1])
       IN /\ grid.running => now < grid.nextStep
          /\ grid' = [grid EXCEPT
                        !.now = now,
                        !.headFrames = @ + 1,
                        !.queuedDirection = IF turns THEN seen[1] ELSE @,
                        !.lastDirection = IF turns THEN now ELSE @]
  /\ UNCHANGED gridRest

\* the callback of the interval: one step of the game
step ==
  /\ grid.on
  /\ grid.running
  /\ grid.total < MaxSteps
  /\ LET prev == grid.snake
         nextDirection == grid.queuedDirection
         nextHead == [x |-> prev[1].x + nextDirection.x, y |-> prev[1].y + nextDirection.y]
         hitsWall == \/ nextHead.x < 0
                     \/ nextHead.y < 0
                     \/ nextHead.x >= GRID_SIZE
                     \/ nextHead.y >= GRID_SIZE
         hitSelf == \E i \in 1..Len(prev) : prev[i] = nextHead
         nextSnake == << nextHead >> \o prev
         stepped == [grid EXCEPT !.direction = nextDirection,
                                 !.previous = grid.direction,
                                 !.steps = @ + 1,
                                 !.total = @ + 1,
                                 !.now = grid.nextStep,
                                 !.nextStep = grid.nextStep + START_SPEED]
     IN IF hitsWall \/ hitSelf
        THEN grid' = [stepped EXCEPT !.running = FALSE,
                                     !.status = "Game Over",
                                     !.best = Max(@, grid.score)]
        ELSE IF nextHead = grid.food
        THEN \E spot \in randomFood(nextSnake) :
               grid' = [stepped EXCEPT !.snake = nextSnake,
                                       !.score = @ + 10,
                                       !.food = spot]
        ELSE grid' = [stepped EXCEPT !.snake = SubSeq(nextSnake, 1, Len(nextSnake) - 1)]
  /\ UNCHANGED gridRest

GridNext ==
  \/ handleStart
  \/ handlePause
  \/ handleKeyGrid
  \/ headLoop
  \/ step

SpecGrid == GridInit /\ [][GridNext]_vars

\* ===================================================================== claims
\* The claims are stated on what one tick was given (input, dt,
\* targetAngles), on the snapshots it went through (moved, grown, remaining)
\* and on what it returned (state, deadIds).

Ticked == ticks > 0

HeadOf(s) == s.segments[1]
IsDead(id) == \E j \in 1..Len(deadIds) : deadIds[j] = id
Returned(id) == \E k \in 1..Len(state.snakes) : state.snakes[k].id = id

\* the squared distance of two points, and the two ranges squared
Dist2(p, q) == (p.x - q.x) * (p.x - q.x) + (p.y - q.y) * (p.y - q.y)
HitRange2 == ((HEAD_RADIUS + BODY_RADIUS) * UNIT) * ((HEAD_RADIUS + BODY_RADIUS) * UNIT)
EatRange2 == ((PELLET_RADIUS + HEAD_RADIUS) * UNIT) * ((PELLET_RADIUS + HEAD_RADIUS) * UNIT)

\* the head h is within HEAD_RADIUS of a wall
AtWall(h) ==
  \/ h.x - HEAD_RADIUS * UNIT < 0
  \/ h.y - HEAD_RADIUS * UNIT < 0
  \/ h.x + HEAD_RADIUS * UNIT > input.bounds.width
  \/ h.y + HEAD_RADIUS * UNIT > input.bounds.height

\* the head h touches a segment of the snake s
Touches(h, s) == \E i \in 1..Len(s.segments) : Dist2(h, s.segments[i]) < HitRange2

\* the head of snake a of the snapshot sn touches another snake of it
TouchesOther(sn, a) ==
  \E b \in 1..Len(sn) : b # a /\ Touches(HeadOf(sn[a]), sn[b])

\* C1: a snake whose head is within HEAD_RADIUS of a wall after the movement
\* step is in deadIds and is not among the snakes of the returned state.
WallDeath ==
  Ticked =>
    \A k \in 1..Len(moved) :
      AtWall(HeadOf(moved[k])) => IsDead(moved[k].id) /\ ~Returned(moved[k].id)

\* C1 happens: a head has moved to within HEAD_RADIUS of the right wall
WallDeathSeen ==
  /\ Ticked
  /\ \E k \in 1..Len(moved) :
       /\ HeadOf(moved[k]).x + HEAD_RADIUS * UNIT > input.bounds.width
       /\ ~AtWall(HeadOf(input.snakes[k]))

\* C2: a snake A whose head, after movement, is nearer than HEAD_RADIUS +
\* BODY_RADIUS to a segment of another snake B is in deadIds; B is not in
\* deadIds when its own head is clear of the walls and of all other snakes.
HeadToBodyDeath ==
  Ticked =>
    \A a \in 1..Len(moved) : \A b \in 1..Len(moved) :
      (a # b /\ Touches(HeadOf(moved[a]), moved[b])) =>
        /\ IsDead(moved[a].id)
        /\ (~AtWall(HeadOf(moved[b])) /\ ~TouchesOther(moved, b)) => ~IsDead(moved[b].id)

\* C2 happens: A ran into the body of B, and B, touching nothing, lives on
HeadToBodySeen ==
  /\ Ticked
  /\ \E a \in 1..Len(moved) : \E b \in 1..Len(moved) :
       /\ a # b
       /\ Touches(HeadOf(moved[a]), moved[b])
       /\ Dist2(HeadOf(moved[a]), HeadOf(moved[b])) >= HitRange2
       /\ ~AtWall(HeadOf(moved[b])) /\ ~TouchesOther(moved, b)
       /\ Returned(moved[b].id)

\* C3: a snake whose head is clear of the walls and of every segment of
\* every other snake is not in deadIds, however near its own segments are.
NoSelfCollision ==
  Ticked =>
    \A k \in 1..Len(grown) :
      (~AtWall(HeadOf(grown[k])) /\ ~TouchesOther(grown, k)) => ~IsDead(grown[k].id)

\* C3 happens: a snake lives on with segments of its own on its head
SelfOverlapSeen ==
  /\ Ticked
  /\ \E k \in 1..Len(grown) :
       /\ \E i \in 2..Len(grown[k].segments) : grown[k].segments[i] = HeadOf(grown[k])
       /\ Returned(grown[k].id)

\* C4: death is decided for every snake against the one snapshot taken
\* before any removal: a snake is in deadIds exactly if its head is at a wall
\* or touches another snake of the snapshot, dead or not; two snakes whose
\* heads are within HEAD_RADIUS + BODY_RADIUS of each other both die.
SimultaneousResolution ==
  Ticked =>
    /\ \A k \in 1..Len(grown) :
         IsDead(grown[k].id) <=> (AtWall(HeadOf(grown[k])) \/ TouchesOther(grown, k))
    /\ \A a \in 1..Len(grown) : \A b \in 1..Len(grown) :
         (a # b /\ Dist2(HeadOf(grown[a]), HeadOf(grown[b])) < HitRange2) =>
           IsDead(grown[a].id) /\ IsDead(grown[b].id)
    /\ \A a \in 1..Len(grown) : \A b \in 1..Len(grown) :
         (a # b /\ Touches(HeadOf(grown[a]), grown[b]) /\ IsDead(grown[b].id)) =>
           IsDead(grown[a].id)

\* C4 happens: two heads met, away from the walls, and both snakes died
HeadOnSeen ==
  /\ Ticked
  /\ \E a \in 1..Len(grown) : \E b \in 1..Len(grown) :
       /\ a < b
       /\ Dist2(HeadOf(grown[a]), HeadOf(grown[b])) < HitRange2
       /\ ~AtWall(HeadOf(grown[a])) /\ ~AtWall(HeadOf(grown[b]))
       /\ IsDead(grown[a].id) /\ IsDead(grown[b].id)

\* C4 happens, second case: A ran into the body of B while B died at a wall
ChainSeen ==
  /\ Ticked
  /\ \E a \in 1..Len(grown) : \E b \in 1..Len(grown) :
       /\ a # b
       /\ Touches(HeadOf(grown[a]), grown[b])
       /\ AtWall(HeadOf(grown[b])) /\ ~TouchesOther(grown, b)
       /\ IsDead(grown[a].id) /\ IsDead(grown[b].id)

\* the ids of a list of snakes, in order
IdsOf(snakes) == [k \in 1..Len(snakes) |-> snakes[k].id]

\* the snake of the list with the given id
SnakeOf(snakes, id) == snakes[CHOOSE k \in 1..Len(snakes) : snakes[k].id = id]

\* C5: the returned snakes are the input snakes whose ids are not in
\* deadIds, in input order; deadIds has no duplicate and only input ids.
DeadIdsConsistent ==
  Ticked =>
    /\ IdsOf(state.snakes) = IdsOf(SelectSeq(input.snakes, LAMBDA s : ~IsDead(s.id)))
    /\ \A i \in 1..Len(deadIds) : \A j \in 1..Len(deadIds) :
         i # j => deadIds[i] # deadIds[j]
    /\ \A j \in 1..Len(deadIds) :
         \E k \in 1..Len(input.snakes) : input.snakes[k].id = deadIds[j]

\* C5 happens: the first of three snakes died and the two others are returned
DeadAndSurvivorsSeen ==
  /\ Ticked
  /\ Len(input.snakes) = 3
  /\ deadIds = << input.snakes[1].id >>
  /\ Len(state.snakes) = 2

\* the pellet p is within eating range of the head h
InReach(h, p) == Dist2(h, p) < EatRange2

\* the input pellets (by index) that snake k of the tick eats: those in
\* reach of its moved head and of the head of no snake before it
Eats(k) ==
  {i \in 1..Len(input.pellets) :
     /\ InReach(HeadOf(moved[k]), input.pellets[i])
     /\ \A j \in 1..(k - 1) : ~InReach(HeadOf(moved[j]), input.pellets[i])}

\* the sum of the values of the pellets with the indices idx
RECURSIVE ValueSum(_, _)
ValueSum(pellets, idx) ==
  IF idx = {} THEN 0
  ELSE LET i == CHOOSE i \in idx : TRUE
       IN pellets[i].value + ValueSum(pellets, idx \ {i})

\* C6: a tick removes each pellet in reach of a moved head, and no other; the
\* snake that eats gains exactly the value of what it eats, in segments, over
\* its count before the tick; the body-follow step keeps the count, so that
\* a snake always has its first length plus all it was credited.
PelletConservation ==
  Ticked =>
    /\ remaining = SelectSeq(input.pellets, LAMBDA p :
                     \A k \in 1..Len(moved) : ~InReach(HeadOf(moved[k]), p))
    /\ \A k \in 1..Len(moved) :
         /\ Len(moved[k].segments) = Len(input.snakes[k].segments)
         /\ Len(grown[k].segments)
              = Len(input.snakes[k].segments) + ValueSum(input.pellets, Eats(k))
         /\ (Cardinality(Eats(k)) = 1
              /\ \A j \in 1..Len(moved) : j # k => Eats(j) = {})
            => Len(remaining) = Len(input.pellets) - 1
    /\ \A k \in 1..Len(state.snakes) :
         /\ state.snakes[k] = SnakeOf(grown, state.snakes[k].id)
         /\ Len(state.snakes[k].segments)
              = Len(SnakeOf(start.snakes, state.snakes[k].id).segments)
                + fed[state.snakes[k].id]

\* C6 happens: a snake began with a pellet on its head, ate it (and nothing
\* else) in the first tick, and has one segment more after the second tick
PelletPickupSeen ==
  /\ ticks = 2
  /\ \E k \in 1..Len(state.snakes) :
       LET s == state.snakes[k]
           s0 == SnakeOf(start.snakes, s.id)
       IN /\ \E i \in 1..Len(start.pellets) :
               /\ start.pellets[i].x = HeadOf(s0).x
               /\ start.pellets[i].y = HeadOf(s0).y
               /\ start.pellets[i].value = PELLET_VALUE
          /\ fed[s.id] = PELLET_VALUE
          /\ Len(s.segments) = Len(SnakeOf(input.snakes, s.id).segments)
          /\ Len(s.segments) = Len(s0.segments) + PELLET_VALUE

\* the sum of a sequence of numbers
RECURSIVE SeqSum(_)
SeqSum(q) == IF q = << >> THEN 0 ELSE q[1] + SeqSum(Tail(q))

\* C7: a pellet in reach of several heads is credited to the first of these
\* snakes in the list only; the length all snakes gain in a tick is the value
\* of the pellets the tick ate.
NoDoubleCount ==
  Ticked =>
    /\ \A k \in 1..Len(moved) : gains[k] = ValueSum(input.pellets, Eats(k))
    /\ SeqSum([k \in 1..Len(grown) |->
                 Len(grown[k].segments) - Len(input.snakes[k].segments)])
         = SeqSum([i \in 1..Len(input.pellets) |-> input.pellets[i].value])
           - SeqSum([i \in 1..Len(remaining) |-> remaining[i].value])

\* C7 happens: one pellet was in reach of two heads; the first snake got it
SharedPelletSeen ==
  /\ Ticked
  /\ \E i \in 1..Len(input.pellets) : \E a \in 1..Len(moved) : \E b \in 1..Len(moved) :
       /\ a < b
       /\ InReach(HeadOf(moved[a]), input.pellets[i])
       /\ InReach(HeadOf(moved[b]), input.pellets[i])
       /\ gains[a] >= input.pellets[i].value
       /\ gains[b] = 0

\* max(1, floor(len * DEATH_PELLET_FRACTION))
DropCount(len) ==
  IF (len * DEATH_PELLET_FRACTION_NUM) \div DEATH_PELLET_FRACTION_DEN >= 1
  THEN (len * DEATH_PELLET_FRACTION_NUM) \div DEATH_PELLET_FRACTION_DEN
  ELSE 1

\* the number of pellets due for the first j dead snakes
RECURSIVE DropsBefore(_)
DropsBefore(j) ==
  IF j = 0 THEN 0
  ELSE DropsBefore(j - 1) + DropCount(Len(SnakeOf(input.snakes, deadIds[j]).segments))

\* C8: for each snake that dies, of L segments in the input state, the tick
\* adds max(1, floor(L * DEATH_PELLET_FRACTION)) pellets of value
\* PELLET_VALUE, and the snake is not returned.
DeathDropCount ==
  Ticked =>
    /\ Len(dropped) = DropsBefore(Len(deadIds))
    /\ \A i \in 1..Len(dropped) : dropped[i].value = PELLET_VALUE
    /\ Len(state.pellets) = Len(remaining) + DropsBefore(Len(deadIds)) + Len(spawned)
    /\ SubSeq(state.pellets, Len(remaining) + 1, Len(remaining) + Len(dropped)) = dropped
    /\ \A j \in 1..Len(deadIds) : ~Returned(deadIds[j])

\* C8 happens: a snake of 20 segments and one of 2 segments died, and 8 + 1
\* pellets were added for them
DeathDropSeen ==
  /\ Ticked
  /\ Len(deadIds) = 2
  /\ Len(SnakeOf(input.snakes, deadIds[1]).segments) = 20
  /\ Len(SnakeOf(input.snakes, deadIds[2]).segments) = 2
  /\ Len(state.pellets) = Len(remaining) + 8 + 1 + Len(spawned)

\* C9: every pellet dropped for a snake that dies lies where one of its
\* segments is after this tick's movement and growth.
DropsAtMovedBody ==
  Ticked =>
    \A j \in 1..Len(deadIds) :
      \A i \in (DropsBefore(j - 1) + 1)..DropsBefore(j) :
        \E m \in 1..Len(SnakeOf(grown, deadIds[j]).segments) :
          /\ dropped[i].x = SnakeOf(grown, deadIds[j]).segments[m].x
          /\ dropped[i].y = SnakeOf(grown, deadIds[j]).segments[m].y

\* C10: the timer is decreased by dt; if that is <= 0 it is reset to
\* PELLET_SPAWN_INTERVAL and one pellet of value PELLET_VALUE is added, else
\* it keeps the decreased value and no pellet is added for it.
PeriodicSpawn ==
  Ticked =>
    /\ IF input.nextPelletSpawn - dt <= 0
       THEN /\ state.nextPelletSpawn = PELLET_SPAWN_INTERVAL * 1000
            /\ Len(state.pellets) = Len(remaining) + Len(dropped) + 1
            /\ state.pellets[Len(state.pellets)].value = PELLET_VALUE
       ELSE /\ state.nextPelletSpawn = input.nextPelletSpawn - dt
            /\ state.pellets = remaining \o dropped
    /\ Len(spawned) <= 1

\* C10 happens: a timer of 0.01 s met a dt of 0.02 s in a tick that ate and
\* killed nothing; there is one pellet more and the timer is full again
IdleSpawnSeen ==
  /\ Ticked
  /\ input.nextPelletSpawn = 10 /\ dt = 20
  /\ deadIds = << >> /\ remaining = input.pellets
  /\ Len(state.pellets) = Len(input.pellets) + 1
  /\ state.nextPelletSpawn = PELLET_SPAWN_INTERVAL * 1000

\* ------------------------------------------------------------- steering
Abs(n) == IF n < 0 THEN -n ELSE n

\* an angle of r thousandths of a radian in degrees, rounded up
Degrees(r) == (r * PI * 1000) \div 3141593 + 1

\* the signed heading change of snake k of the input in the movement step
HeadingChange(k) == normalizeAngle(moved[k].angle - input.snakes[k].angle)

\* the target snake k of the input was moved with
TargetOf(k) ==
  IF input.snakes[k].id \in DOMAIN targetAngles
  THEN targetAngles[input.snakes[k].id]
  ELSE input.snakes[k].angle

\* the signed difference of the target of snake k to its heading
TargetDiff(k) == normalizeAngle(TargetOf(k) - input.snakes[k].angle)

Spaced(s, i) ==
  LET d2 == Dist2(s.segments[i], s.segments[i + 1])
  IN /\ d2 >= (SEGMENT_SPACING * UNIT - 2) * (SEGMENT_SPACING * UNIT - 2)
     /\ d2 <= (SEGMENT_SPACING * UNIT + 2) * (SEGMENT_SPACING * UNIT + 2)

\* what snake k of the snapshot gained in the tick
GainOf(k) == gains[k]

\* C12 as the claim has it: in the returned state the segments of every snake
\* are SEGMENT_SPACING apart, one from the next, also after eating
SpacingInReturnedState ==
  Ticked =>
    \A k \in 1..Len(state.snakes) :
      \A i \in 1..(Len(state.snakes[k].segments) - 1) : Spaced(state.snakes[k], i)

\* C12: after the movement step the segments of every snake are
\* SEGMENT_SPACING apart, one from the next; in the returned state that holds
\* for the segments a snake had before eating, while the segments appended
\* for the pellets eaten in this tick all lie on its tail, at distance 0.
SpacingAfterMove ==
  Ticked =>
    /\ \A k \in 1..Len(moved) :
         \A i \in 1..(Len(moved[k].segments) - 1) : Spaced(moved[k], i)
    /\ \A k \in 1..Len(grown) :
         Returned(grown[k].id) =>
           LET s == SnakeOf(state.snakes, grown[k].id)
               n == Len(moved[k].segments)
           IN /\ Len(s.segments) = n + GainOf(k)
              /\ \A i \in 1..(n - 1) : Spaced(s, i)
              /\ \A i \in (n + 1)..Len(s.segments) : s.segments[i] = s.segments[n]

\* C12 happens: a snake of several segments ate, lives on, and is returned with
\* its new segments on its tail
GrownTailSeen ==
  /\ Ticked
  /\ \E k \in 1..Len(grown) :
       /\ GainOf(k) > 0
       /\ Len(moved[k].segments) >= 2
       /\ Returned(grown[k].id)
       /\ LET s == SnakeOf(state.snakes, grown[k].id)
          IN s.segments[Len(s.segments)] = s.segments[Len(s.segments) - 1]

\* ------------------------------------------------------------- no steering
\* C14: a snake whose id is not in targetAngles has after the tick the heading
\* it had before, and its head has moved by speed * dt along that heading.
NoInputNoTurn ==
  Ticked =>
    \A k \in 1..Len(moved) :
      input.snakes[k].id \notin DOMAIN targetAngles =>
        LET old == input.snakes[k]
        IN /\ moved[k].angle = old.angle
           /\ Returned(old.id) => SnakeOf(state.snakes, old.id).angle = old.angle
           /\ HeadOf(moved[k]).x = HeadOf(old).x + Advance(Cos(old.angle), old.speed, dt)
           /\ HeadOf(moved[k]).y = HeadOf(old).y + Advance(Sin(old.angle), old.speed, dt)

\* C14 happens: the player was steered and turned, a snake without an entry,
\* heading elsewhere than 0, went straight on and lives
UnsteeredSeen ==
  /\ Ticked
  /\ \E k \in 1..Len(moved) : \E j \in 1..Len(moved) :
       /\ input.snakes[k].id \notin DOMAIN targetAngles
       /\ input.snakes[k].angle # 0
       /\ HeadOf(moved[k]) # HeadOf(input.snakes[k])
       /\ Returned(input.snakes[k].id)
       /\ input.snakes[j].id \in DOMAIN targetAngles
       /\ moved[j].angle # input.snakes[j].angle

\* ------------------------------------------------------------- unknown ids
\* the entries of targetAngles for the snakes of the input
KnownTargets ==
  [id \in DOMAIN targetAngles \cap {input.snakes[k].id : k \in 1..Len(input.snakes)}
     |-> targetAngles[id]]

\* C15: the entries of targetAngles for ids no snake of the input has do not
\* matter: the tick without them returns the same snakes, deadIds and timer.
UnknownIdsIgnored ==
  (Ticked /\ DOMAIN KnownTargets # DOMAIN targetAngles) =>
    LET r == tick(input, dt, KnownTargets, 0, 0)
    IN /\ r.state.snakes = state.snakes
       /\ r.deadIds = deadIds
       /\ r.state.nextPelletSpawn = state.nextPelletSpawn

\* C15 happens: the player died in an earlier tick, this tick has an entry
\* for it and snakes to move
DeadIdSteeredSeen ==
  /\ Ticked
  /\ "player" \in DOMAIN targetAngles
  /\ \A k \in 1..Len(input.snakes) : input.snakes[k].id # "player"
  /\ \E k \in 1..Len(input.snakes) : targetAngles["player"] # input.snakes[k].angle
  /\ state.snakes # << >>

\* C15 happens, second case: this tick has an entry for an id that never was
NoSuchIdSteeredSeen ==
  /\ Ticked
  /\ "snake-99" \in DOMAIN targetAngles
  /\ state.snakes # << >>

Created == create.pc = "done"

\* the snakes of the returned state that are not the player
Bots == {k \in 1..Len(state.snakes) : ~state.snakes[k].isPlayer}

\* C16: for numBots >= 1 the state createInitialState returns has numPellets
\* pellets, each of value PELLET_VALUE, one snake flagged isPlayer, which is
\* the first and has the id "player", the id "snake-i" for the snake at index
\* i > 0, no id twice, and PELLET_SPAWN_INTERVAL for nextPelletSpawn.
CreatedStateValid ==
  (Created /\ create.numBots >= 1) =>
    /\ Len(state.pellets) = create.numPellets
    /\ \A j \in 1..Len(state.pellets) : state.pellets[j].value = PELLET_VALUE
    /\ {k \in 1..Len(state.snakes) : state.snakes[k].isPlayer} = {1}
    /\ state.snakes[1].id = "player"
    /\ \A k \in 2..Len(state.snakes) : state.snakes[k].id = "snake-" \o ToString(k - 1)
    /\ \A k \in 1..Len(state.snakes) : \A j \in 1..Len(state.snakes) :
         state.snakes[k].id = state.snakes[j].id => k = j
    /\ state.nextPelletSpawn = PELLET_SPAWN_INTERVAL * 1000

\* C16 happens: a state with three snakes, two of them bots of different
\* headings, and two pellets at two places is returned
CreatedSeen ==
  /\ Created
  /\ create.numBots = 3 /\ Len(state.snakes) = 3
  /\ create.numPellets = 2
  /\ state.pellets[1] # state.pellets[2]
  /\ state.snakes[2].angle # state.snakes[3].angle

\* C17 as the claim has it: the returned state has numBots snakes that are
\* not the player
NumBotsAreBots == Created => Cardinality(Bots) = create.numBots

\* C18 as the claim has it: every call of createInitialState returns
CreateTerminates == <>Created

\* C18, what holds of it: the call returns when numBots is at most the number
\* of cells of the 50-unit grid the spawn points can fall in
CreateTerminatesWithRoom ==
  create.numBots <= Cardinality({Key(Scatter(create.bounds.width, rx),
                                     Scatter(create.bounds.height, ry)) :
                                   rx \in Randoms, ry \in Randoms})
    => <>Created

\* ------------------------------------------------------------ SlitherPage
\* the page has run a frame: input, dt and targetAngles are what its loop
\* called tick with, page.playerSpeedMultiplier what it passed in the options
Framed == page.frames > 0

\* C13 as the claim has it: in a tick called with the player speed multiplier
\* m the head of the player advances by speed * m * dt along its heading, the
\* head of every other snake by speed * dt
MultiplierApplied ==
  Framed =>
    \A k \in 1..Len(moved) :
      LET m == IF input.snakes[k].isPlayer THEN page.playerSpeedMultiplier ELSE 1000
          speed == (input.snakes[k].speed * m) \div 1000
      IN /\ HeadOf(moved[k]).x - HeadOf(input.snakes[k]).x
              = Advance(Cos(moved[k].angle), speed, dt)
         /\ HeadOf(moved[k]).y - HeadOf(input.snakes[k]).y
              = Advance(Sin(moved[k].angle), speed, dt)

\* C13, what happens instead: the frame passed BOOST_SPEED_MULTIPLIER, and
\* the head of the player advanced by speed * dt like every other
BoostIgnoredSeen ==
  /\ Framed
  /\ page.playerSpeedMultiplier = BOOST_SPEED_MULTIPLIER
  /\ \E k \in 1..Len(moved) :
       /\ input.snakes[k].isPlayer
       /\ HeadOf(moved[k]) # HeadOf(input.snakes[k])
       /\ HeadOf(moved[k]).x - HeadOf(input.snakes[k]).x
            = Advance(Cos(moved[k].angle), input.snakes[k].speed, dt)
       /\ HeadOf(moved[k]).y - HeadOf(input.snakes[k]).y
            = Advance(Sin(moved[k].angle), input.snakes[k].speed, dt)

\* C20 as the claim has it: a measured frame delta of 0.2 s or more is
\* replaced by FIXED_DT, so the dt of every tick is below 0.2 s
FrameDeltaBelowThreshold ==
  Framed =>
    /\ page.measured >= 200 => dt = FIXED_DT
    /\ dt < 200

\* C20: a measured frame delta above 0.2 s is replaced by FIXED_DT and any
\* other is passed on as it is, a delta of 0.2 s too, so the dt of every tick
\* is at most 0.2 s.
FrameDeltaClamped ==
  Framed =>
    /\ page.measured > 200 => dt = FIXED_DT
    /\ page.measured <= 200 => dt = page.measured
    /\ dt <= 200

\* C20 happens: the first frame came after the two seconds of the calibration
\* countdown and 0.201 s more, and the tick was given FIXED_DT
ClampedFrameSeen ==
  /\ Framed
  /\ page.measured = CALIBRATION_DELAY_SEC * 1000 + 201
  /\ dt = FIXED_DT

\* C20 happens, second case: the frame came 0.2 s after the one before, and
\* the tick was given 0.2 s
ThresholdFrameSeen ==
  /\ Framed
  /\ page.measured = 200
  /\ dt = 200

\* ------------------------------------------------------------------- C23
\* the point SEGMENT_SPACING behind p against the heading angle
Behind(p, angle) ==
  [x |-> p.x - RDiv(Cos(angle) * SEGMENT_SPACING * UNIT, 1000),
   y |-> p.y - RDiv(Sin(angle) * SEGMENT_SPACING * UNIT, 1000)]

\* segment i of snake k lay, before the step, where its leader is after it
OnLeader(k, i) == input.snakes[k].segments[i] = moved[k].segments[i - 1]

\* C23: right after the body loop of moveSnake every segment from the second
\* on is SEGMENT_SPACING from the segment before it (the new head for the
\* second); a segment that lay on its leader is put SEGMENT_SPACING behind
\* the leader against the snake's new heading, so the spacing also holds for
\* the tail copies an earlier tick appended
FollowSpacing ==
  Ticked =>
    \A k \in 1..Len(moved) :
      /\ Len(moved[k].segments) = Len(input.snakes[k].segments)
      /\ \A i \in 2..Len(moved[k].segments) :
           /\ Spaced(moved[k], i - 1)
           /\ OnLeader(k, i) =>
                moved[k].segments[i] = Behind(moved[k].segments[i - 1], moved[k].angle)

\* C23 as the claim has it: the spacing, and every segment that lay on its
\* leader before the step is put behind the leader against the heading (to
\* within two hundredths a coordinate)
FollowBehindOldLeader ==
  Ticked =>
    \A k \in 1..Len(moved) : \A i \in 2..Len(moved[k].segments) :
      /\ Spaced(moved[k], i - 1)
      /\ input.snakes[k].segments[i] = input.snakes[k].segments[i - 1] =>
           LET b == Behind(moved[k].segments[i - 1], moved[k].angle)
           IN /\ Abs(moved[k].segments[i].x - b.x) <= 2
              /\ Abs(moved[k].segments[i].y - b.y) <= 2

\* a tail copy appended by an earlier tick lay on its leader and was put
\* behind it against the heading
CoincidentSegmentSeen ==
  /\ Ticked
  /\ \E k \in 1..Len(moved) : \E i \in 2..Len(moved[k].segments) :
       /\ input.snakes[k].segments[i] = input.snakes[k].segments[i - 1]
       /\ OnLeader(k, i)
       /\ moved[k].segments[i] = Behind(moved[k].segments[i - 1], moved[k].angle)
       /\ moved[k].segments[i] # input.snakes[k].segments[i]

\* ------------------------------------------------------------------- C24
\* the signed difference of the target of snake k to its heading after the
\* movement step
Remaining(k) == normalizeAngle(TargetOf(k) - moved[k].angle)

\* the heading of snake k stayed on the shortest arc from its old heading
\* to its target
OnShortestArc(k) ==
  /\ Abs(Remaining(k)) <= Abs(TargetDiff(k))
  /\ Remaining(k) * TargetDiff(k) >= 0
  /\ HeadingChange(k) * TargetDiff(k) >= 0

\* C24 as the claim has it: no snake steers past its target, and with
\* turnSpeed * dt >= 1 its heading is the normalized target itself
SteersToNormalizedTarget ==
  Ticked =>
    \A k \in 1..Len(moved) :
      /\ OnShortestArc(k)
      /\ input.snakes[k].turnSpeed * dt >= 1000 =>
           moved[k].angle = normalizeAngle(TargetOf(k))

\* C24: no snake steers past its target (what is left of the signed
\* difference to the target has the sign it had and is no larger), and with
\* turnSpeed * dt >= 1 its heading is the direction of the target: the
\* normalized target, or pi for -pi and -pi for pi
NoOvershoot ==
  Ticked =>
    \A k \in 1..Len(moved) :
      /\ OnShortestArc(k)
      /\ input.snakes[k].turnSpeed * dt >= 1000 =>
           /\ Remaining(k) = 0
           /\ \/ moved[k].angle = normalizeAngle(TargetOf(k))
              \/ Abs(moved[k].angle) = PI /\ Abs(normalizeAngle(TargetOf(k))) = PI

\* a steered snake turned all the way to a target off its heading in one tick,
\* and another time turned only part of the way
FullTurnSeen ==
  /\ Ticked
  /\ input.snakes[1].turnSpeed * dt >= 1000
  /\ TargetDiff(1) # 0
  /\ moved[1].angle = normalizeAngle(TargetOf(1))
  /\ start.snakes[1].angle # input.snakes[1].angle
  /\ input.snakes[1].angle # normalizeAngle(TargetOf(1))

\* a snake heading pi was steered to -pi and kept heading pi
OppositeSignSeen ==
  /\ Ticked
  /\ \E k \in 1..Len(moved) :
       /\ input.snakes[k].turnSpeed * dt >= 1000
       /\ normalizeAngle(TargetOf(k)) = -PI
       /\ moved[k].angle = PI

\* ------------------------------------------------------------------- C25
\* the headings of the snakes created so far and of the snakes of the state
AllAngles ==
  {create.snakes[k].angle : k \in 1..Len(create.snakes)}
    \cup {state.snakes[k].angle : k \in 1..Len(state.snakes)}

\* C25 as the claim has it: from createInitialState on, through every tick,
\* the heading of every snake is above -pi and at most pi
HeadingHalfOpen == \A a \in AllAngles : -PI < a /\ a <= PI

\* C25: from createInitialState on, through every tick, the heading of every
\* snake is at least -pi and at most pi; -pi itself occurs
HeadingRange == \A a \in AllAngles : -PI <= a /\ a <= PI

\* a snake created heading -pi was steered in a tick and heads -pi after it
MinusPiSeen ==
  /\ Ticked
  /\ \E k \in 1..Len(moved) :
       /\ \E j \in 1..Len(start.snakes) :
            start.snakes[j].id = moved[k].id /\ start.snakes[j].angle = -PI
       /\ moved[k].id \in DOMAIN targetAngles
       /\ moved[k].angle = -PI
       /\ \E j \in 1..Len(state.snakes) :
            state.snakes[j].id = moved[k].id /\ state.snakes[j].angle = -PI

\* ------------------------------------------------------------------- C26
\* the segments of the snake with the given id in the state the game began
\* with
StartLength(id) == Len(SnakeOf(start.snakes, id).segments)

\* C26: a live snake has at least one segment and never fewer than before;
\* in a tick where it gains g segments, its first segments are what
\* moveSnake made of its old segments, in their order, and g copies of the
\* moved tail follow them
TailGrowth ==
  Ticked =>
    /\ \A k \in 1..Len(input.snakes) :
         LET old == input.snakes[k].segments
             new == grown[k].segments
             g == gains[k]
         IN /\ Len(old) >= 1
            /\ g >= 0
            /\ Len(new) = Len(old) + g
            /\ SubSeq(new, 1, Len(old))
                 = moveSnake(input.snakes[k], dt, TargetOf(k)).segments
            /\ \A i \in (Len(old) + 1)..Len(new) : new[i] = new[Len(old)]
            /\ Returned(input.snakes[k].id) =>
                 SnakeOf(state.snakes, input.snakes[k].id).segments = new
    /\ \A k \in 1..Len(state.snakes) :
         Len(state.snakes[k].segments) >= StartLength(state.snakes[k].id)

\* a snake of two segments or more gained two in a tick, lived, and went
\* through another tick without losing a segment
TailGrowthSeen ==
  /\ ticks = 2
  /\ \E k \in 1..Len(input.snakes) :
       /\ Len(input.snakes[k].segments) >= StartLength(input.snakes[k].id) + 2
       /\ StartLength(input.snakes[k].id) >= 2
       /\ Returned(input.snakes[k].id)
       /\ Len(SnakeOf(state.snakes, input.snakes[k].id).segments)
            >= Len(input.snakes[k].segments)

\* ------------------------------------------------------------------- C27
\* the pellet p is out of the reach of every head after the movement step
OutOfReach(p) == \A k \in 1..Len(moved) : ~InReach(HeadOf(moved[k]), p)

\* the pellets of the snapshot that are out of reach, in their order
Untouched == SelectSeq(input.pellets, OutOfReach)

\* C27: every pellet of the snapshot out of the reach of every moved head is
\* in the returned state with its x, y and value (they come first, in their
\* order), and the pellets missing from the returned state are those in
\* reach of a head and no other
PelletsStay ==
  Ticked =>
    /\ Len(state.pellets) = Len(Untouched) + Len(dropped) + Len(spawned)
    /\ SubSeq(state.pellets, 1, Len(Untouched)) = Untouched
    /\ \A i \in 1..Len(input.pellets) :
         OutOfReach(input.pellets[i]) =>
           \E j \in 1..Len(state.pellets) : state.pellets[j] = input.pellets[i]

\* in one tick a pellet was eaten and another kept, while a death dropped
\* pellets and the timer spawned one
PelletKeptSeen ==
  /\ Ticked
  /\ Len(Untouched) >= 1
  /\ Len(Untouched) < Len(input.pellets)
  /\ dropped # << >>
  /\ spawned # << >>
  /\ state.pellets[1] = Untouched[1]

\* ------------------------------------------------------------------- C28
\* C28: a tick adds no snake (the returned snakes are snakes of its input, in
\* their order); a snake it reports dead is not in the state it returns; and
\* an id reported dead by some tick is in no later state and is reported
\* dead by no later tick
PopulationShrinks ==
  /\ Ticked =>
       /\ Len(state.snakes) <= Len(input.snakes)
       /\ \A k \in 1..Len(state.snakes) :
            \E j \in 1..Len(input.snakes) : input.snakes[j].id = state.snakes[k].id
       /\ \A j \in 1..Len(deadIds) : ~Returned(deadIds[j])
       /\ Len(state.snakes) = Len(input.snakes) - Len(deadIds)
  /\ \A i \in 1..Len(obituary) :
       /\ ~Returned(obituary[i])
       /\ \A j \in 1..Len(obituary) : obituary[i] = obituary[j] => i = j
  /\ \A k \in 1..Len(state.snakes) :
       \E j \in 1..Len(start.snakes) : start.snakes[j].id = state.snakes[k].id

\* a snake died in the first tick and another in the second, and a third is
\* alive after both
TwoDeathsSeen ==
  /\ ticks = 2
  /\ deadIds # << >>
  /\ Len(obituary) > Len(deadIds)
  /\ state.snakes # << >>

\* ------------------------------------------------------------------- C29
\* the fields of a snake no tick writes
Identity(s) ==
  [id |-> s.id, isPlayer |-> s.isPlayer, speed |-> s.speed,
   turnSpeed |-> s.turnSpeed, color |-> s.color]

\* the ids of the snakes are pairwise distinct, and a snake with isPlayer
\* set is the one with the id "player"
WellIdentified(snakes) ==
  /\ \A j, k \in 1..Len(snakes) : snakes[j].id = snakes[k].id => j = k
  /\ \A k \in 1..Len(snakes) : snakes[k].isPlayer <=> snakes[k].id = "player"
  /\ Cardinality({k \in 1..Len(snakes) : snakes[k].isPlayer}) <= 1

\* C29: in the state createInitialState returns and after every tick on it
\* the ids are pairwise distinct and at most one snake has isPlayer set, the
\* one with the id "player"; a tick keeps the id, isPlayer, speed, turnSpeed
\* and color of every snake it returns, and keeps bounds and nextSnakeId
IdentityKept ==
  /\ WellIdentified(create.snakes)
  /\ WellIdentified(state.snakes)
  /\ Ticked =>
       /\ \A k \in 1..Len(state.snakes) :
            /\ Identity(state.snakes[k])
                 = Identity(SnakeOf(input.snakes, state.snakes[k].id))
            /\ Identity(state.snakes[k])
                 = Identity(SnakeOf(start.snakes, state.snakes[k].id))
       /\ state.bounds = input.bounds
       /\ state.nextSnakeId = input.nextSnakeId
       /\ state.bounds = start.bounds
       /\ state.nextSnakeId = start.nextSnakeId

\* the player and a bot, created by createInitialState, are alive after two
\* ticks that moved them
IdentitySeen ==
  /\ Created
  /\ ticks = 2
  /\ \E j, k \in 1..Len(state.snakes) :
       /\ state.snakes[j].isPlayer
       /\ ~state.snakes[k].isPlayer
       /\ state.snakes[j].segments # SnakeOf(start.snakes, "player").segments
  /\ state.nextSnakeId = GameBots

\* ------------------------------------------------------------------- C21
\* C21: under every interleaving of the countdown, Pause / Resume, the Face
\* checkbox, Restart, the death of the player and the win, at most one
\* callback of the loop is pending, it is the one the latest effect holds in
\* raf, none is pending while running is false, and the state the page holds
\* after a frame is not the one that frame ticked
OneLoop ==
  /\ Cardinality(page.pending) <= 1
  /\ page.pending \subseteq {page.raf}
  /\ ~page.running => page.pending = {}
  /\ Ticked => state # input

\* after a restart and with Face switched off a frame has run, and the loop
\* is running with one callback pending, which is not the first requested
LoopRestartedSeen ==
  /\ page.restarts = 1
  /\ ~page.faceEnabled
  /\ page.frames = 1
  /\ page.running
  /\ Cardinality(page.pending) = 1
  /\ page.raf > 1

\* the second frame won the game: running is off and no callback is pending
LoopEndedSeen ==
  /\ page.frames = 2
  /\ ~page.running
  /\ page.pending = {}
  /\ page.raf # 0
  /\ page.winTimeout

\* ------------------------------------------------------------------- C30
\* a tick of the game the page holds has reported the player dead
PlayerReportedDead == \E i \in 1..Len(obituary) : obituary[i] = "player"

\* C30: once a tick has reported "player" in deadIds, no callback of the loop
\* is pending and that tick stays the last one of the game: until Restart the
\* page holds what it returned, whatever is clicked
DeathEndsTheGame ==
  PlayerReportedDead =>
    /\ IsDead("player")
    /\ page.pending = {}
    /\ ~page.running

\* after the tick that reported the player dead, and with no restart, the
\* loop ran again and ticked the game of the bots
TickedAfterDeathSeen ==
  /\ PlayerReportedDead
  /\ page.restarts = 0
  /\ Ticked
  /\ ~IsDead("player")
  /\ \A k \in 1..Len(input.snakes) : ~input.snakes[k].isPlayer
  /\ page.running
  /\ page.pending # {}

\* ------------------------------------------------------------------- C22
\* the ids of the snakes of the list that are not the player
BotIds(snakes) == {snakes[k].id : k \in {j \in 1..Len(snakes) : ~snakes[j].isPlayer}}

SpawnTimerRange ==
  /\ 0 < state.nextPelletSpawn
  /\ state.nextPelletSpawn <= PELLET_SPAWN_INTERVAL * 1000
  /\ Ticked =>
       /\ dt > 0
       /\ \/ state.nextPelletSpawn = PELLET_SPAWN_INTERVAL * 1000
          \/ state.nextPelletSpawn < input.nextPelletSpawn

\* the timer ran out and was reset in
\* one tick, and was decreased below the interval in the next
TimerResetSeen ==
  /\ ticks = 2
  /\ start.nextPelletSpawn = 100
  /\ input.nextPelletSpawn = PELLET_SPAWN_INTERVAL * 1000
  /\ state.nextPelletSpawn = PELLET_SPAWN_INTERVAL * 1000 - dt
  /\ Len(state.snakes) >= 1

\* ------------------------------------------------------------------- C32
\* C32 as the claim has it: with every dt >= d a pellet is spawned again and
\* again, and in every ceil(PELLET_SPAWN_INTERVAL / d) ticks in a row there
\* is a spawn
SpawnInEveryWindow ==
  /\ [](clock.quiet < Window)
  /\ []<>(clock.quiet = 0)

\* C32: with every dt >= d a pellet is spawned again and again, and in every
\* ceil(PELLET_SPAWN_INTERVAL / d) + 1 ticks in a row there is a spawn (the
\* subtractions round, and the tick that brings the timer to 0 in exact
\* arithmetic may leave it just above)
SpawnsRecur ==
  /\ [](clock.quiet <= Window)
  /\ []<>(clock.quiet = 0)

\* ceil(PELLET_SPAWN_INTERVAL / d) ticks of d each have passed since the last
\* spawn, and the timer is a rounding error above 0
LateSpawnSeen ==
  /\ clock.on
  /\ clock.quiet = Window
  /\ clock.nextPelletSpawn = 0
  /\ clock.ulps = 1

\* ------------------------------------------------------------------- C33
\* C33: tick leaves its input as it found it: after the call the array
\* state.pellets of the input holds the pellets it held before the call, also
\* when no pellet was eaten and a snake died or the timer ran out
InputUntouched ==
  Ticked => inputPellets = input.pellets

\* ------------------------------------------------------------------- C34
\* C34: every pellet of a created game and of the states its ticks return,
\* be it created, spawned by the timer or dropped by a dead snake, lies in
\* the world: 0 <= x <= bounds.width and 0 <= y <= bounds.height
PelletsInWorld ==
  create.pc = "done" =>
    \A i \in 1..Len(state.pellets) :
      /\ 0 <= state.pellets[i].x
      /\ state.pellets[i].x <= state.bounds.width
      /\ 0 <= state.pellets[i].y
      /\ state.pellets[i].y <= state.bounds.height

\* ------------------------------------------------------------------- C35
\* C35: whenever the win overlay is shown, the game the page holds has one
\* snake and it is the player, however the timeout that shows the overlay
\* falls among Restart and the other events
OverlayMatchesGame ==
  page.showWinOverlay =>
    /\ Len(state.snakes) = 1
    /\ state.snakes[1].isPlayer

\* ------------------------------------------------------------------- C36
\* C36: within one game no boost is started while another is active, and
\* from the end time of a boost to the start of the next at least
\* BOOST_COOLDOWN_MS pass, however mouth-open events, frames and
\* Pause / Resume fall
BoostCooldown ==
  \A i \in 1..(Len(page.boosts) - 1) :
    page.boosts[i + 1].start - page.boosts[i].end >= BOOST_COOLDOWN_MS

\* ------------------------------------------------------------------- C37
\* the last frame of the page has run: the refs are those its loop has read
LastFrameRan == page.frames > 0 /\ page.frames = page.limit

\* C37: in a frame with no face-tracking angle and ArrowLeft or ArrowRight
\* held, the target heading of the player passed to tick is its heading turned
\* by PLAYER_TURN_RATE * dt to the side of the key, whatever the mouse has
\* done before
ArrowKeysSteer ==
  /\ LastFrameRan
  /\ ~(page.faceEnabled /\ page.playerCVAngle # << >>)
  /\ page.playerTurn # 0
  => \A k \in 1..Len(input.snakes) :
       input.snakes[k].isPlayer =>
         targetAngles["player"]
           = normalizeAngle(input.snakes[k].angle
                              + ToDegrees(page.playerTurn * PLAYER_TURN_RATE * dt))

\* ------------------------------------------------------------------- C38
\* C38: the direction applied at a step of the grid game is never the exact
\* opposite of the direction applied at the step before, however key presses
\* and head directions fall between the two steps
NeverReverses ==
  grid.steps >= 2 => ~Reverse(grid.direction, grid.previous)

====
